---------------------------- MODULE Spec2Model ----------------------------
(***************************************************************************)
(* Model of the shipping-rate aggregator: the rate fan-out handler         *)
(* (api/rates.py), the label purchase handler (api/purchase.py) and the    *)
(* purchase_label operation of the provider adapters (lib/*_client.py).    *)
(*                                                                         *)
(* Python dicts are functions whose DOMAIN is the key set; None is the     *)
(* string "None"; an exception is a record of its class and its message.   *)
(***************************************************************************)
EXTENDS Integers, Sequences, FiniteSets, TLC

\* ------------------------------------------------------------------ bounds
\* Largest number of rates one provider's unit returns.
MaxRates == 3

\* Longest address name a rate request carries.
MaxNameLen == 24

\* The number of validate_address calls made for one address.
MaxCalls == 2

\* --------------------------------------------------------------- constants
Providers == {"shippo", "easypost", "shipengine", "easyship"}

\* Messages of the exceptions a unit of work can raise (adapter construction
\* error, provider request error).
UnitMessages == {"client construction failed", "connection error"}

VARIABLES
    \* ---- api/rates.py: handler.do_POST
    bodyValid,      \* the request body builds Address, Address, Parcel
    configured,     \* providers whose API key is set in os.environ
    rpc,            \* position of the rate handler
    futures,        \* providers with a submitted future (values of `futures`)
    submits,        \* number of executor.submit calls per provider
    unit,           \* per provider: "none" | "running" | "returned" | "raised"
    unitOut,        \* per provider: what the finished unit returned or raised
    yielded,        \* futures already handed out by as_completed
    results,        \* dict provider -> list of serialized rates
    errors,         \* dict provider -> message
    deadlinePassed, \* as_completed gave up at its 9 s deadline
    lateUnits,      \* units still running when as_completed gave up
    rexc,           \* exception propagating to the handler's except clause
    rwire           \* what the handler has put on the wire, in order

VARIABLES
    \* ---- api/purchase.py: handler.do_POST
    preq,           \* the request body: rate_id, provider, format
    pkeys,          \* providers whose <PROVIDER>_API_KEY is in os.environ
    driveConfigured,\* GOOGLE_SERVICE_ACCOUNT_JSON is set
    ppc,            \* position of the purchase handler
    committed,      \* the provider accepted the purchase and issued a label
    answered,       \* the provider answer the adapter's purchase_label met
    label,          \* the ShippingLabel the adapter returned
    downloaded,     \* requests.get(label.label_url): "no" | "ok" | "failed"
    uploaded,       \* uploader.upload_label was called
    drive,          \* drive_link, drive_file_id, drive_warning
    pexc,           \* exception propagating to the handler's except clause
    pwire           \* what the handler has put on the wire, in order

VARIABLES
    \* ---- lib/*_client.py: one adapter instance and the calls made on it
    aclass,         \* the adapter class: the provider it talks to
    apc,            \* "new" | "ready" (constructed) | "failed" (__init__ raised)
    inst,           \* the instance: self.api_key, self._carrier_ids
    aop,            \* the operation called last
    ain,            \* the arguments of that call
    asaw,           \* the provider answers that call met
    aout,           \* what that call returned or raised
    net,            \* the provider requests that call issued, in order
    contacted,      \* some provider request has been issued since construction
    verdicts        \* provider-side address database, as far as it was queried

VARIABLES
    \* ---- api/rates.py _serialize_rate, api/validate.py _serialize_address
    sobj,           \* the object handed to the serializer
    spc,            \* "start" | "done"
    sout            \* what the serializer returned or raised

VARIABLES
    \* ---- api/history.py: handler.do_POST, one entry per request
    store,          \* the storage file: absent, whole or half-written; its records
    hpc,            \* position of each request's handler
    hbody,          \* each request's body
    hstart,         \* the records the file held when the request arrived
    history,        \* each handler's local list `history`
    label_record,   \* each handler's new record
    hexc,           \* exception propagating to the handler's except clause
    hwire           \* what each handler wrote to its client

avars == <<aclass, apc, inst, aop, ain, asaw, aout, net, contacted, verdicts>>

svars == <<sobj, spc, sout>>

hvars == <<store, hpc, hbody, hstart, history, label_record, hexc, hwire>>

pvars == <<preq, pkeys, driveConfigured, ppc, committed, answered, label, downloaded,
           uploaded, drive, pexc, pwire>>

rvars == <<bodyValid, configured, rpc, futures, submits, unit, unitOut,
           yielded, results, errors, deadlinePassed, lateUnits, rexc, rwire>>

vars == <<rvars, pvars, avars, svars, hvars>>

\* -------------------------------------------------------------- exceptions
\* An exception: its class, the fixed part of its message, the interpolated
\* part of its message, and the two numbers as_completed interpolates.
NoExc == [kind |-> "None", text |-> "None", detail |-> "None", n |-> 0, of |-> 0]

Exc(kind, text, detail) ==
    [kind |-> kind, text |-> text, detail |-> detail, n |-> 0, of |-> 0]

\* concurrent.futures.as_completed: TimeoutError('%d (of %d) futures unfinished')
UnfinishedError(n, of) ==
    [kind |-> "TimeoutError", text |-> "futures unfinished", detail |-> "None",
     n |-> n, of |-> of]

\* str(e): the message without the class.
Str(e) == [text |-> e.text, detail |-> e.detail, n |-> e.n, of |-> e.of]

\* A string literal, as a message.
Text(s) == [text |-> s, detail |-> "None", n |-> 0, of |-> 0]

\* ------------------------------------------------------------- rate units
\* The list a unit returns: [self._serialize_rate(r) for r in rates].
RateList(p, n) == [i \in 1..n |-> [provider |-> p, index |-> i]]

\* What one unit of work (handler._get_<provider>_rates) can end with.
UnitOutcomes(p) ==
    {[ok |-> TRUE, rates |-> RateList(p, n), exc |-> NoExc] : n \in 0..MaxRates}
    \cup {[ok |-> FALSE, rates |-> <<>>, exc |-> Exc("Exception", m, "None")] :
            m \in UnitMessages}
    \cup {[ok |-> FALSE, rates |-> <<>>, exc |-> Exc("TimeoutError", "timed out", "None")]}

NoOutcome == [ok |-> FALSE, rates |-> <<>>, exc |-> NoExc]

EmptyDict == <<>>

\* d[k] = v on a Python dict
DictSet(d, k, v) == (k :> v) @@ d

\* ---------------------------------------------------------------- the wire
\* What a handler writes, in order: status lines (send_response ...
\* end_headers) and JSON bodies (wfile.write(json.dumps(...))).
StatusLine(code) ==
    [item |-> "status", status |-> code, success |-> FALSE, data |-> <<>>,
     errors |-> <<>>, error |-> Text("None"), warning |-> Text("None")]

\* {'success': True, 'data': ..., 'errors': ...}
SuccessEnvelope(data, errs) ==
    [item |-> "body", status |-> 0, success |-> TRUE, data |-> data,
     errors |-> errs, error |-> Text("None"), warning |-> Text("None")]

\* {'success': False, 'error': str(e)}
ErrorEnvelope(e) ==
    [item |-> "body", status |-> 0, success |-> FALSE, data |-> <<>>,
     errors |-> <<>>, error |-> Str(e), warning |-> Text("None")]

\* The JSON bodies a handler has written.
Bodies(wire) == {wire[i] : i \in {j \in 1..Len(wire) : wire[j].item = "body"}}

\* ------------------------------------------------------------------- Init
RatesInit ==
    /\ bodyValid \in BOOLEAN
    /\ configured \in SUBSET Providers
    /\ rpc = "parse"
    /\ futures = {}
    /\ submits = [p \in Providers |-> 0]
    /\ unit = [p \in Providers |-> "none"]
    /\ unitOut = [p \in Providers |-> NoOutcome]
    /\ yielded = {}
    /\ results = EmptyDict
    /\ errors = EmptyDict
    /\ deadlinePassed = FALSE
    /\ lateUnits = {}
    /\ rexc = NoExc
    /\ rwire = <<>>

\* ---------------------------------------------------------------- actions
\* rates.py 28-35: parse the body and build the models; a bad body raises.
ParseBody ==
    /\ rpc = "parse"
    /\ IF bodyValid
         THEN /\ rpc' = "submit"
              /\ rexc' = rexc
         ELSE /\ rpc' = "except"
              /\ rexc' = Exc("ValidationError", "invalid request body", "None")
    /\ UNCHANGED <<bodyValid, configured, futures, submits, unit, unitOut,
                   yielded, results, errors, deadlinePassed, lateUnits, rwire,
                   pvars, avars, svars, hvars>>

\* Mutant of ToSubmit: the environment checks are dropped and every provider
\* is submitted.
ToSubmit_Unconditional == Providers

\* The providers the four `if os.environ.get(...)` statements submit.
ToSubmit == {p \in Providers : p \in configured}

\* rates.py 41: ThreadPoolExecutor(max_workers=4)
PoolSize == 4

\* Mutant of SubmitAll: every unit is submitted a second time.
SubmitAll_Resubmits ==
    /\ rpc = "submit"
    /\ futures' = ToSubmit
    /\ submits' = [p \in Providers |-> IF p \in ToSubmit THEN submits[p] + 2
                                                         ELSE submits[p]]
    /\ unit' = [p \in Providers |-> IF p \in ToSubmit THEN "running" ELSE unit[p]]
    /\ rpc' = "collect"
    /\ UNCHANGED <<bodyValid, configured, unitOut, yielded, results, errors,
                   deadlinePassed, lateUnits, rexc, rwire,
                   pvars, avars, svars, hvars>>

\* rates.py 41-75: one executor.submit per configured provider.  The pool has
\* a worker for each of them, so every submitted unit starts running.
SubmitAll ==
    /\ rpc = "submit"
    /\ futures' = ToSubmit
    /\ submits' = [p \in Providers |-> IF p \in ToSubmit THEN submits[p] + 1
                                                         ELSE submits[p]]
    /\ unit' = [p \in Providers |-> IF p \in ToSubmit THEN "running" ELSE unit[p]]
    /\ rpc' = "collect"
    /\ UNCHANGED <<bodyValid, configured, unitOut, yielded, results, errors,
                   deadlinePassed, lateUnits, rexc, rwire,
                   pvars, avars, svars, hvars>>

\* A worker thread finishes handler._get_<p>_rates: it returns or raises.
\* The handler does not cancel units, so this can happen at any time.
UnitFinish(p) ==
    /\ unit[p] = "running"
    /\ \E o \in UnitOutcomes(p) :
         /\ unitOut' = [unitOut EXCEPT ![p] = o]
         /\ unit' = [unit EXCEPT ![p] = IF o.ok THEN "returned" ELSE "raised"]
    /\ UNCHANGED <<bodyValid, configured, rpc, futures, submits, yielded,
                   results, errors, deadlinePassed, lateUnits, rexc, rwire,
                   pvars, avars, svars, hvars>>

\* rates.py 80-87: the body of the collection loop for one finished future.
CollectInto(p, o) ==
    IF o.ok
      THEN [res |-> DictSet(results, p, o.rates), err |-> errors]
      ELSE IF o.exc.kind = "TimeoutError"
             THEN [res |-> results, err |-> DictSet(errors, p, Text("Request timed out"))]
             ELSE [res |-> results, err |-> DictSet(errors, p, Str(o.exc))]

\* rates.py 78-87: as_completed yields a finished future and the loop body runs.
CollectOne(p) ==
    /\ rpc = "collect"
    /\ p \in futures \ yielded
    /\ unit[p] \in {"returned", "raised"}
    /\ yielded' = yielded \cup {p}
    /\ results' = CollectInto(p, unitOut[p]).res
    /\ errors' = CollectInto(p, unitOut[p]).err
    /\ UNCHANGED <<bodyValid, configured, rpc, futures, submits, unit, unitOut,
                   deadlinePassed, lateUnits, rexc, rwire,
                   pvars, avars, svars, hvars>>

\* rates.py 78: every future has been yielded, the for loop ends.
CollectDone ==
    /\ rpc = "collect"
    /\ yielded = futures
    /\ rpc' = "shutdown"
    /\ UNCHANGED <<bodyValid, configured, futures, submits, unit, unitOut,
                   yielded, results, errors, deadlinePassed, lateUnits, rexc, rwire,
                   pvars, avars, svars, hvars>>

\* rates.py 78: the 9 seconds of as_completed(futures, timeout=9) have run
\* out while units are still running: as_completed raises TimeoutError out of
\* the for statement, outside the try of the loop body.  (A finished future
\* wakes the loop at once, so the clock is looked at while the pending
\* futures are running.)
CollectTimeout ==
    /\ rpc = "collect"
    /\ \E p \in futures \ yielded : unit[p] = "running"
    /\ deadlinePassed' = TRUE
    /\ lateUnits' = {p \in futures \ yielded : unit[p] = "running"}
    /\ rexc' = UnfinishedError(Cardinality(futures \ yielded), Cardinality(futures))
    /\ rpc' = "shutdown"
    /\ UNCHANGED <<bodyValid, configured, futures, submits, unit, unitOut,
                   yielded, results, errors, rwire,
                   pvars, avars, svars, hvars>>

\* rates.py 41: leaving the `with ThreadPoolExecutor` block is
\* executor.shutdown(wait=True): it returns when every worker has finished.
ExecutorExit ==
    /\ rpc = "shutdown"
    /\ \A p \in futures : unit[p] # "running"
    /\ rpc' = IF rexc = NoExc THEN "respond" ELSE "except"
    /\ UNCHANGED <<bodyValid, configured, futures, submits, unit, unitOut,
                   yielded, results, errors, deadlinePassed, lateUnits, rexc, rwire,
                   pvars, avars, svars, hvars>>

\* rates.py 95-99: the response object.
RatesResponse == SuccessEnvelope(results, IF errors # EmptyDict THEN errors ELSE EmptyDict)

\* rates.py 89-101: status 200 and the success envelope.
SendRates ==
    /\ rpc = "respond"
    /\ rwire' = rwire \o <<StatusLine(200), RatesResponse>>
    /\ rpc' = "done"
    /\ UNCHANGED <<bodyValid, configured, futures, submits, unit, unitOut,
                   yielded, results, errors, deadlinePassed, lateUnits, rexc,
                   pvars, avars, svars, hvars>>

\* rates.py 103-114: status 500 and the error envelope.
SendRatesError ==
    /\ rpc = "except"
    /\ rwire' = rwire \o <<StatusLine(500), ErrorEnvelope(rexc)>>
    /\ rpc' = "done"
    /\ UNCHANGED <<bodyValid, configured, futures, submits, unit, unitOut,
                   yielded, results, errors, deadlinePassed, lateUnits, rexc,
                   pvars, avars, svars, hvars>>


\* =========================================================================
\* Label purchase: lib/models.py, lib/*_client.py purchase_label,
\* api/purchase.py
\* =========================================================================
\* ---- the providers' side
\* The service the Shippo account offers: what a rate object of the provider
\* says about it.
ShippoService ==
    [provider |-> "USPS", servicelevel_name |-> "Priority Mail",
     servicelevel_token |-> "usps_priority", amount |-> 750,
     estimated_days |-> "2", duration_terms |-> "1-3 days"]

\* The service the EasyPost account offers: what a rate object of the
\* provider says about it.
EasyPostService == [carrier |-> "USPS", service |-> "Priority", rate |-> 750]

\* The service the ShipEngine account offers: what the provider's rate and
\* label objects say about it.
ShipEngineService ==
    [carrier_id |-> "se-123", carrier_friendly_name |-> "USPS",
     service_type |-> "USPS Priority Mail", service_code |-> "usps_priority_mail",
     amount |-> 750]

LabelUrl == "https://provider.example/label.pdf"

LabelUrlPng == "https://provider.example/label.png"

NoLabel ==
    [tracking_number |-> "None", label_url |-> "None", carrier |-> "None",
     service |-> "None", cost |-> 0, created_at |-> "None"]

\* What purchase_label ends with: a label, or an exception.
Bought(l) == [ok |-> TRUE, label |-> l, exc |-> NoExc]

Failed(e) == [ok |-> FALSE, label |-> NoLabel, exc |-> e]

\* models.py 45-53: ShippingLabel(...). The str fields reject None; created_at
\* is not passed by any adapter and defaults to datetime.now(), a datetime.
ShippingLabel(tracking_number, label_url, carrier, service, cost) ==
    IF "None" \in {tracking_number, label_url, carrier, service}
      THEN Failed(Exc("ValidationError", "Input should be a valid string", "None"))
      ELSE Bought([tracking_number |-> tracking_number, label_url |-> label_url,
                   carrier |-> carrier, service |-> service, cost |-> cost,
                   created_at |-> "datetime"])

\* ---- Shippo
\* transaction.messages as the provider can send them.
ShippoMessageLists == {<<>>, <<"Rate expired">>, <<"Insufficient funds", "Rate expired">>}

\* What self.client.transactions.create can answer (or raise).
ShippoTransactions ==
    [raises : {FALSE}, status : {"SUCCESS", "ERROR", "QUEUED"},
     messages : ShippoMessageLists, label_url : {"None", LabelUrl},
     rate_is_str : BOOLEAN]
    \cup {[raises |-> TRUE, status |-> "None", messages |-> <<>>,
           label_url |-> "None", rate_is_str |-> FALSE]}

\* Mutant of ShippoPurchaseLabel: the failure reports the last message
\* instead of the first.
ShippoPurchaseLabel_LastMessage(t) ==
    IF t.raises
      THEN Failed(Exc("SDKError", "transaction request failed", "None"))
    ELSE IF t.status # "SUCCESS"
      THEN Failed(Exc("Exception", "Label purchase failed",
                      IF t.messages # <<>> THEN t.messages[Len(t.messages)]
                                           ELSE "Unknown error"))
    ELSE IF t.rate_is_str
      THEN ShippingLabel("TRACK1", t.label_url, "Unknown", "Unknown", 0)
      ELSE ShippingLabel("TRACK1", t.label_url, ShippoService.provider,
                         ShippoService.servicelevel_name, ShippoService.amount)

\* shippo_client.py 113-160: ShippoClient.purchase_label
ShippoPurchaseLabel(t) ==
    IF t.raises
      THEN Failed(Exc("SDKError", "transaction request failed", "None"))
    ELSE IF t.status # "SUCCESS"
      THEN Failed(Exc("Exception", "Label purchase failed",
                      IF t.messages # <<>> THEN t.messages[1] ELSE "Unknown error"))
    ELSE IF t.rate_is_str
      THEN ShippingLabel("TRACK1", t.label_url, "Unknown", "Unknown", 0)
      ELSE ShippingLabel("TRACK1", t.label_url, ShippoService.provider,
                         ShippoService.servicelevel_name, ShippoService.amount)

\* ---- EasyPost
\* What rate.retrieve and shipment.buy can answer (or raise).
EasyPostShipments ==
    [retrieve_raises : {FALSE}, buy_raises : {FALSE},
     postage_label : {"None", "present"}, label_url : {"None", LabelUrl},
     selected_rate : BOOLEAN]
    \cup {[retrieve_raises |-> TRUE, buy_raises |-> FALSE, postage_label |-> "None",
           label_url |-> "None", selected_rate |-> FALSE],
          [retrieve_raises |-> FALSE, buy_raises |-> TRUE, postage_label |-> "None",
           label_url |-> "None", selected_rate |-> FALSE]}

\* easypost_client.py 104-141: EasyPostClient.purchase_label
EasyPostPurchaseLabel(b) ==
    IF b.retrieve_raises
      THEN Failed(Exc("EasyPostError", "rate retrieve failed", "None"))
    ELSE IF b.buy_raises
      THEN Failed(Exc("EasyPostError", "shipment buy failed", "None"))
    ELSE IF b.postage_label = "None"
      THEN Failed(Exc("Exception", "Label purchase failed",
                      "No postage label returned"))
    ELSE IF b.selected_rate
      THEN ShippingLabel("TRACK1", b.label_url, EasyPostService.carrier,
                         EasyPostService.service, EasyPostService.rate)
      ELSE ShippingLabel("TRACK1", b.label_url, "Unknown", "Unknown", 0)

\* ---- ShipEngine
\* str.lower() on the label formats a request can carry.
Lower(f) == CASE f = "PDF" -> "pdf" [] f = "PNG" -> "png" [] OTHER -> f

\* dict.get(k, default)
DictGet(d, k, default) == IF k \in DOMAIN d THEN d[k] ELSE default

\* What POST /labels/rates/{rate_id} can answer (or raise): the status code
\* and the "label_download" object of the body (absent: the empty dict).
ShipEngineResponses ==
    [raises : {FALSE}, status_code : {200, 201, 400},
     label_download : {EmptyDict, ("pdf" :> LabelUrl),
                       ("pdf" :> LabelUrl) @@ ("png" :> LabelUrlPng)}]
    \cup {[raises |-> TRUE, status_code |-> 0, label_download |-> EmptyDict]}

\* shipengine_client.py 177-228: ShipEngineClient.purchase_label
ShipEnginePurchaseLabel(r, label_format) ==
    IF r.raises
      THEN Failed(Exc("Exception", "ShipEngine label purchase error",
                      "connection error"))
    ELSE IF r.status_code \notin {200, 201}
      THEN Failed(Exc("Exception", "ShipEngine error",
                      "ShipEngine API returned status"))
    ELSE ShippingLabel("TRACK1",
                       IF Lower(label_format) = "pdf"
                         THEN DictGet(r.label_download, "pdf", "")
                         ELSE DictGet(r.label_download, Lower(label_format), ""),
                       ShipEngineService.carrier_id, ShipEngineService.service_code,
                       ShipEngineService.amount)

\* ---- Easyship
\* The public operations each adapter class defines.
AdapterOperations(p) ==
    CASE p = "shippo" ->
           {"get_rates", "purchase_label", "validate_address", "track_shipment"}
      [] p = "easypost" ->
           {"get_rates", "purchase_label", "validate_address", "track_shipment"}
      [] p = "shipengine" -> {"get_rates", "purchase_label", "validate_address"}
      [] p = "easyship" -> {"get_rates"}

\* The provider answers the purchase handler can meet, tagged with the
\* adapter that received them.
ProviderAnswers(p) ==
    CASE p = "shippo" -> {[provider |-> p, answer |-> t] : t \in ShippoTransactions}
      [] p = "easypost" -> {[provider |-> p, answer |-> b] : b \in EasyPostShipments}
      [] p = "shipengine" -> {[provider |-> p, answer |-> r] : r \in ShipEngineResponses}
      [] OTHER -> {}

\* No provider answer has been met.
NoAnswer == [provider |-> "None", answer |-> "None"]

\* The provider's side of a purchase call: the provider accepted the purchase
\* and issued a label for it (its answer carries a label URL).
Sold(a) ==
    CASE a.provider = "shippo" ->
           ~a.answer.raises /\ a.answer.status = "SUCCESS" /\ a.answer.label_url # "None"
      [] a.provider = "easypost" ->
           /\ ~a.answer.retrieve_raises /\ ~a.answer.buy_raises
           /\ a.answer.postage_label # "None" /\ a.answer.label_url # "None"
      [] a.provider = "shipengine" ->
           /\ ~a.answer.raises /\ a.answer.status_code \in {200, 201}
           /\ a.answer.label_download # EmptyDict

\* client.purchase_label(rate_id, label_format) on the adapter of provider a.provider
AdapterPurchaseLabel(a, label_format) ==
    CASE a.provider = "shippo" -> ShippoPurchaseLabel(a.answer)
      [] a.provider = "easypost" -> EasyPostPurchaseLabel(a.answer)
      [] a.provider = "shipengine" -> ShipEnginePurchaseLabel(a.answer, label_format)

\* ---- api/purchase.py
PurchaseRequests ==
    [rate_id : {"None", "rate_123"},
     provider : {"None", "fedex"} \cup Providers,
     format : {"PDF", "PNG"}]

NoDrive == [link |-> "None", file_id |-> "None", warning |-> Text("None")]

PurchaseInit ==
    /\ preq \in PurchaseRequests
    /\ pkeys \in SUBSET Providers
    /\ driveConfigured \in BOOLEAN
    /\ ppc = "parse"
    /\ committed = FALSE
    /\ answered = NoAnswer
    /\ label = NoLabel
    /\ downloaded = "no"
    /\ uploaded = FALSE
    /\ drive = NoDrive
    /\ pexc = NoExc
    /\ pwire = <<>>

\* No purchase request is in flight.
PurchaseIdle ==
    /\ preq = [rate_id |-> "None", provider |-> "None", format |-> "PDF"]
    /\ pkeys = {}
    /\ driveConfigured = FALSE
    /\ ppc = "idle"
    /\ committed = FALSE
    /\ answered = NoAnswer
    /\ label = NoLabel
    /\ downloaded = "no"
    /\ uploaded = FALSE
    /\ drive = NoDrive
    /\ pexc = NoExc
    /\ pwire = <<>>

\* No rate request is in flight.
RatesIdle ==
    /\ bodyValid = FALSE
    /\ configured = {}
    /\ rpc = "idle"
    /\ futures = {}
    /\ submits = [p \in Providers |-> 0]
    /\ unit = [p \in Providers |-> "none"]
    /\ unitOut = [p \in Providers |-> NoOutcome]
    /\ yielded = {}
    /\ results = EmptyDict
    /\ errors = EmptyDict
    /\ deadlinePassed = FALSE
    /\ lateUnits = {}
    /\ rexc = NoExc
    /\ rwire = <<>>

\* ---- lib/models.py, as far as the adapters need it
\* models.py 7-18: Address.  The optional fields that are None are "None".
Address(name, street1) ==
    [name |-> name, street1 |-> street1, street2 |-> "None", city |-> "Ontario",
     state |-> "CA", zip |-> "91761", country |-> "US", phone |-> "None",
     email |-> "None", is_residential |-> TRUE]

NoAddress == [Address("None", "None") EXCEPT !.city = "None", !.state = "None",
                                             !.zip = "None", !.country = "None"]

\* models.py 29-39: Rate
Rate(object_id, provider, servicelevel_name, servicelevel_token, amount, estimated_days, duration_terms, shipment_id) ==
    [object_id |-> object_id, provider |-> provider,
     servicelevel_name |-> servicelevel_name,
     servicelevel_token |-> servicelevel_token, amount |-> amount,
     currency |-> "USD", estimated_days |-> estimated_days,
     duration_terms |-> duration_terms, shipment_id |-> shipment_id]

NoRate == Rate("None", "None", "None", "None", 0, "None", "None", "None")

\* models.py 55-60: ValidationResult
ValidationResult(is_valid, messages, original_address) ==
    [is_valid |-> is_valid, messages |-> messages,
     original_address |-> original_address, validated_address |-> NoAddress]

NoValidation == ValidationResult(FALSE, <<>>, NoAddress)

\* ---- one adapter instance
\* self._carrier_ids: None, or the cached list.
NoneIds == [is_none |-> TRUE, ids |-> <<>>]

Cached(ids) == [is_none |-> FALSE, ids |-> ids]

NoInstance == [api_key |-> "None", carrier_ids |-> NoneIds]

\* The arguments of a call, whichever the operation.  rate is a Rate object
\* passed to the call: no operation of the adapters takes one, purchase_label
\* takes the rate's id.
NoInput ==
    [api_key |-> "None", fallback |-> "None",
     from_address |-> NoAddress, to_address |-> NoAddress,
     from_after |-> NoAddress, to_after |-> NoAddress,
     address |-> NoAddress, address_after |-> NoAddress,
     rate |-> NoRate, rate_id |-> "None", label_format |-> "None"]

\* What a call ended with: a returned value of the operation's type, or an
\* exception.
NoOutput ==
    [ok |-> FALSE, rates |-> <<>>, label |-> NoLabel, validation |-> NoValidation,
     exc |-> NoExc]

Raised(e) == [NoOutput EXCEPT !.exc = e]

\* No adapter is under study.
AdapterIdle ==
    /\ aclass = "None"
    /\ apc = "idle"
    /\ inst = NoInstance
    /\ aop = "None"
    /\ ain = NoInput
    /\ asaw = NoAnswer
    /\ aout = NoOutput
    /\ net = <<>>
    /\ contacted = FALSE
    /\ verdicts = EmptyDict

\* ---- the serializers' argument and result
\* An object handed to a serializer: what it is, whether it has model_dump
\* and dict methods, and its attributes.
NoObject == [kind |-> "None", model_dump |-> FALSE, dict |-> FALSE, attrs |-> EmptyDict]

\* What a serializer call ended with: a mapping, None, or an exception.
NoMapping == [ok |-> FALSE, none |-> FALSE, mapping |-> EmptyDict, exc |-> NoExc]

\* No serializer call is under study.
SerializerIdle ==
    /\ sobj = NoObject
    /\ spc = "idle"
    /\ sout = NoMapping

\* ---- the history requests
\* history.py 92: history[:1000]
HistoryLimit == 1000

\* The number of history POST requests.
MaxPosts == 2

Posts == 1..MaxPosts

\* The storage file does not exist.
NoFile == [state |-> "absent", records |-> <<>>]

NoBody == [parses |-> FALSE, is_dict |-> FALSE, fields |-> EmptyDict]

\* history.py 81: datetime.now().isoformat()
Now == "2026-11-02T09:30:00.000000"

\* history.py 73-85: label_record (body.get(k) is None for a missing key;
\* every body of the model carries its cost).
LabelRecord(body) ==
    [tracking_number |-> DictGet(body, "tracking_number", "None"),
     carrier |-> DictGet(body, "carrier", "None"),
     service |-> DictGet(body, "service", "None"),
     cost |-> DictGet(body, "cost", 0),
     currency |-> DictGet(body, "currency", "USD"),
     provider |-> DictGet(body, "provider", "None"),
     created_at |-> DictGet(body, "created_at", Now),
     from_address |-> DictGet(body, "from_address", "None"),
     to_address |-> DictGet(body, "to_address", "None"),
     google_drive_link |-> DictGet(body, "google_drive_link", "None"),
     google_drive_file_id |-> DictGet(body, "google_drive_file_id", "None")]

NoRecord == LabelRecord(EmptyDict)

\* No history request is under study.
HistoryIdle ==
    /\ store = NoFile
    /\ hpc = [r \in Posts |-> "off"]
    /\ hbody = [r \in Posts |-> NoBody]
    /\ hstart = [r \in Posts |-> <<>>]
    /\ history = [r \in Posts |-> <<>>]
    /\ label_record = [r \in Posts |-> NoRecord]
    /\ hexc = [r \in Posts |-> NoExc]
    /\ hwire = [r \in Posts |-> <<>>]

\* purchase.py 28-40: read the body; rate_id and provider are required.
ParsePurchase ==
    /\ ppc = "parse"
    /\ IF preq.rate_id = "None" \/ preq.provider = "None"
         THEN /\ pexc' = Exc("ValueError", "Missing rate_id or provider", "None")
              /\ ppc' = "except"
         ELSE /\ pexc' = pexc
              /\ ppc' = "purchase"
    /\ UNCHANGED <<preq, pkeys, driveConfigured, committed, answered, label,
                   downloaded, uploaded, drive, pwire, rvars, avars, svars, hvars>>

\* purchase.py 42-52: a provider outside the four is rejected.
RejectProvider ==
    /\ ppc = "purchase"
    /\ preq.provider \notin Providers
    /\ pexc' = Exc("ValueError", "Unknown provider", preq.provider)
    /\ ppc' = "except"
    /\ UNCHANGED <<preq, pkeys, driveConfigured, committed, answered, label,
                   downloaded, uploaded, drive, pwire, rvars, avars, svars, hvars>>

\* purchase.py 131-159: os.environ['<PROVIDER>_API_KEY'] of an unset key.
MissingKey ==
    /\ ppc = "purchase"
    /\ preq.provider \in Providers \ pkeys
    /\ pexc' = Exc("KeyError", "API_KEY", preq.provider)
    /\ ppc' = "except"
    /\ UNCHANGED <<preq, pkeys, driveConfigured, committed, answered, label,
                   downloaded, uploaded, drive, pwire, rvars, avars, svars, hvars>>

\* purchase.py 154-159: client.purchase_label on a class that does not
\* define it.
MissingOperation ==
    /\ ppc = "purchase"
    /\ preq.provider \in Providers \cap pkeys
    /\ "purchase_label" \notin AdapterOperations(preq.provider)
    /\ pexc' = Exc("AttributeError", "object has no attribute", "purchase_label")
    /\ ppc' = "except"
    /\ UNCHANGED <<preq, pkeys, driveConfigured, committed, answered, label,
                   downloaded, uploaded, drive, pwire, rvars, avars, svars, hvars>>

\* purchase.py 42-50, 131-152: the adapter's purchase_label runs against the
\* provider and returns a label or raises.
PurchaseLabel ==
    /\ ppc = "purchase"
    /\ preq.provider \in Providers \cap pkeys
    /\ "purchase_label" \in AdapterOperations(preq.provider)
    /\ \E a \in ProviderAnswers(preq.provider) :
         LET out == AdapterPurchaseLabel(a, preq.format) IN
           /\ answered' = a
           /\ committed' = Sold(a)
           /\ label' = out.label
           /\ pexc' = out.exc
           /\ ppc' = IF out.ok THEN "download" ELSE "except"
    /\ UNCHANGED <<preq, pkeys, driveConfigured, downloaded, uploaded, drive,
                   pwire, rvars, avars, svars, hvars>>

\* purchase.py 54-57: requests.get(label.label_url) and raise_for_status.
\* An empty URL has no scheme and raises before any request is sent.
DownloadLabel ==
    /\ ppc = "download"
    /\ \E fetched \in BOOLEAN :
         IF label.label_url = ""
           THEN /\ downloaded' = "failed"
                /\ pexc' = Exc("MissingSchema", "Invalid URL", label.label_url)
                /\ ppc' = "except"
           ELSE IF fetched
             THEN /\ downloaded' = "ok"
                  /\ pexc' = pexc
                  /\ ppc' = "drive"
             ELSE /\ downloaded' = "failed"
                  /\ pexc' = Exc("HTTPError", "label download failed", "None")
                  /\ ppc' = "except"
    /\ UNCHANGED <<preq, pkeys, driveConfigured, committed, answered, label,
                   uploaded, drive, pwire, rvars, avars, svars, hvars>>

\* purchase.py 59-80: the optional Drive upload; its failure is a warning.
DriveUpload ==
    /\ ppc = "drive"
    /\ IF driveConfigured
         THEN /\ uploaded' = TRUE
              /\ \E stored \in BOOLEAN :
                   drive' = IF stored
                              THEN [link |-> "https://drive.example/file",
                                    file_id |-> "file-1", warning |-> Text("None")]
                              ELSE [link |-> "None", file_id |-> "None",
                                    warning |->
                                      [Text("Label purchased successfully, but Drive upload failed")
                                         EXCEPT !.detail = "upload error"]]
         ELSE UNCHANGED <<uploaded, drive>>
    /\ ppc' = "respond"
    /\ UNCHANGED <<preq, pkeys, driveConfigured, committed, answered, label,
                   downloaded, pexc, pwire, rvars, avars, svars, hvars>>

\* purchase.py 91: label.created_at or datetime.now().isoformat()
CreatedAt(l) == IF l.created_at # "None" THEN l.created_at ELSE "isoformat string"

\* purchase.py 83-102: response_data
PurchaseResponse ==
    [SuccessEnvelope(
        [tracking_number |-> label.tracking_number, carrier |-> label.carrier,
         service |-> label.service, cost |-> label.cost, currency |-> "USD",
         created_at |-> CreatedAt(label), google_drive_link |-> drive.link,
         google_drive_file_id |-> drive.file_id, label_url_temp |-> label.label_url,
         provider |-> preq.provider],
        <<>>)
     EXCEPT !.warning = drive.warning]

\* json.dumps accepts str, numbers, None, dicts, lists; not a datetime.
JsonSerializable(envelope) == envelope.data.created_at # "datetime"

\* purchase.py 104-110: status 200 and headers go out, then json.dumps
\* builds the body; a TypeError from json.dumps reaches the except clause.
SendLabel ==
    /\ ppc = "respond"
    /\ IF JsonSerializable(PurchaseResponse)
         THEN /\ pwire' = pwire \o <<StatusLine(200), PurchaseResponse>>
              /\ pexc' = pexc
              /\ ppc' = "done"
         ELSE /\ pwire' = pwire \o <<StatusLine(200)>>
              /\ pexc' = Exc("TypeError", "Object of type is not JSON serializable",
                             "datetime")
              /\ ppc' = "except"
    /\ UNCHANGED <<preq, pkeys, driveConfigured, committed, answered, label,
                   downloaded, uploaded, drive, rvars, avars, svars, hvars>>

\* purchase.py 112-123: status 500 and the error envelope.
SendPurchaseError ==
    /\ ppc = "except"
    /\ pwire' = pwire \o <<StatusLine(500), ErrorEnvelope(pexc)>>
    /\ ppc' = "done"
    /\ UNCHANGED <<preq, pkeys, driveConfigured, committed, answered, label,
                   downloaded, uploaded, drive, pexc, rvars, avars, svars, hvars>>

PurchaseNext ==
    \/ ParsePurchase
    \/ RejectProvider
    \/ MissingKey
    \/ MissingOperation
    \/ PurchaseLabel
    \/ DownloadLabel
    \/ DriveUpload
    \/ SendLabel
    \/ SendPurchaseError

\* One purchase request is served; no rate request is in flight.
InitPurchase == PurchaseInit /\ RatesIdle /\ AdapterIdle /\ SerializerIdle /\ HistoryIdle

SpecPurchase == InitPurchase /\ [][PurchaseNext]_vars

RatesNext ==
    \/ ParseBody
    \/ SubmitAll
    \/ \E p \in Providers : UnitFinish(p)
    \/ \E p \in Providers : CollectOne(p)
    \/ CollectDone
    \/ CollectTimeout
    \/ ExecutorExit
    \/ SendRates
    \/ SendRatesError

\* One rate request is served; no purchase request is in flight.
InitRates == RatesInit /\ PurchaseIdle /\ AdapterIdle /\ SerializerIdle /\ HistoryIdle

SpecRates == InitRates /\ [][RatesNext]_vars

\* =========================================================================
\* The provider adapters: lib/shippo_client.py, lib/easypost_client.py,
\* lib/shipengine_client.py, lib/easyship_client.py
\* =========================================================================
\* A Python value is falsy: None or the empty string.
Falsy(s) == s \in {"None", ""}

\* a or b
Or(a, b) == IF Falsy(a) THEN b ELSE a

\* What __init__ ends with: an instance, or an exception and no instance.
Constructed(api_key) ==
    [ok |-> TRUE, self |-> [api_key |-> api_key, carrier_ids |-> NoneIds],
     exc |-> NoExc]

NotConstructed(e) == [ok |-> FALSE, self |-> NoInstance, exc |-> e]

\* shippo_client.py 15-33: ShippoClient.__init__; fallback is
\* os.getenv("SHIPPO_API_KEY", "").
ShippoInit(api_key, fallback) ==
    IF Falsy(Or(api_key, fallback))
      THEN NotConstructed(Exc("ValueError", "API key not configured", "SHIPPO_API_KEY"))
      ELSE Constructed(Or(api_key, fallback))

\* easypost_client.py 14-32: EasyPostClient.__init__; fallback is the
\* api_key attribute of the imported config object.
EasyPostInit(api_key, fallback) ==
    IF Falsy(Or(api_key, fallback))
      THEN NotConstructed(Exc("ValueError", "API key not configured", "EASYPOST_API_KEY"))
      ELSE Constructed(Or(api_key, fallback))

\* Mutant of ShipEngineInit: the key is not checked at construction.
ShipEngineInit_Unchecked(api_key, fallback) == Constructed(Or(api_key, fallback))

\* shipengine_client.py 16-36: ShipEngineClient.__init__; fallback is
\* os.getenv("SHIPENGINE_API_KEY", "").
ShipEngineInit(api_key, fallback) ==
    IF Falsy(Or(api_key, fallback))
      THEN NotConstructed(Exc("ValueError", "API key not configured", "SHIPENGINE_API_KEY"))
      ELSE Constructed(Or(api_key, fallback))

\* easyship_client.py 16-33: EasyshipClient.__init__; fallback is
\* os.getenv("EASYSHIP_API_KEY", "").
EasyshipInit(api_key, fallback) ==
    IF Falsy(Or(api_key, fallback))
      THEN NotConstructed(Exc("ValueError", "API key not configured", "EASYSHIP_API_KEY"))
      ELSE Constructed(Or(api_key, fallback))

\* <Class>(api_key=...)
AdapterInit(p, api_key, fallback) ==
    CASE p = "shippo" -> ShippoInit(api_key, fallback)
      [] p = "easypost" -> EasyPostInit(api_key, fallback)
      [] p = "shipengine" -> ShipEngineInit(api_key, fallback)
      [] p = "easyship" -> EasyshipInit(api_key, fallback)

\* The api_key argument a caller passes, and what the fallback can hold.
KeyArguments == {"None", "", "key_arg"}

\* os.getenv(name, "") is a string; config.api_key can also be None.
KeyFallbacks(p) == IF p = "easypost" THEN {"None", "", "key_env"} ELSE {"", "key_env"}

\* ---- Python strings
\* s[:n]
Prefix(s, n) == IF Len(s) > n THEN SubSeq(s, 1, n) ELSE s

RECURSIVE Find(_, _, _)
\* The first position >= i at which sub occurs in s; 0 when there is none.
Find(s, sub, i) ==
    IF i + Len(sub) - 1 > Len(s) THEN 0
    ELSE IF SubSeq(s, i, i + Len(sub) - 1) = sub THEN i
    ELSE Find(s, sub, i + 1)

\* sub in s
Contains(s, sub) == Find(s, sub, 1) # 0

\* s.split(sub)[0]
BeforeFirst(s, sub) ==
    IF Contains(s, sub) THEN SubSeq(s, 1, Find(s, sub, 1) - 1) ELSE s

RECURSIVE LStrip(_)
LStrip(s) ==
    IF Len(s) > 0 /\ SubSeq(s, 1, 1) = " " THEN LStrip(SubSeq(s, 2, Len(s))) ELSE s

RECURSIVE RStrip(_)
RStrip(s) ==
    IF Len(s) > 0 /\ SubSeq(s, Len(s), Len(s)) = " "
      THEN RStrip(SubSeq(s, 1, Len(s) - 1)) ELSE s

\* s.strip()
Strip(s) == RStrip(LStrip(s))

\* s.startswith(prefix)
StartsWith(s, prefix) == Len(s) >= Len(prefix) /\ SubSeq(s, 1, Len(prefix)) = prefix

\* ---- what an operation of an adapter ends with
\* out: the returned value or the exception; calls: the provider requests it
\* issued, in order; self: the instance afterwards; args: the caller's
\* argument objects afterwards.
Returned(rates) == [NoOutput EXCEPT !.ok = TRUE, !.rates = rates]

\* One request to the provider (an SDK call or an HTTP request).
Request(endpoint) ==
    [endpoint |-> endpoint, id |-> "None", carrier_ids |-> <<>>,
     origin_name |-> "None", destination_name |-> "None"]

\* The identifier the provider gives its i-th rate.
RateId(i) == "rate_12" \o ToString(i + 2)

\* ---- Shippo get_rates
\* One element of shipment.rates.
ShippoRateData(i) ==
    [object_id |-> RateId(i), provider |-> ShippoService.provider,
     servicelevel |-> [name |-> ShippoService.servicelevel_name,
                       token |-> ShippoService.servicelevel_token],
     amount |-> ShippoService.amount, estimated_days |-> ShippoService.estimated_days,
     duration_terms |-> ShippoService.duration_terms]

\* What self.client.shipments.create can answer (or raise).
ShippoShipments ==
    {[raises |-> FALSE, rates |-> [i \in 1..n |-> ShippoRateData(i)]] : n \in 0..MaxRates}
    \cup {[raises |-> TRUE, rates |-> <<>>]}

\* shippo_client.py 61-111: ShippoClient.get_rates
ShippoGetRates(self, from_address, to_address, shipment) ==
    [out |-> IF shipment.raises
               THEN Raised(Exc("SDKError", "shipment request failed", "None"))
               ELSE Returned([i \in 1..Len(shipment.rates) |->
                        LET rate_data == shipment.rates[i] IN
                        Rate(rate_data.object_id, rate_data.provider,
                             rate_data.servicelevel.name, rate_data.servicelevel.token,
                             rate_data.amount, rate_data.estimated_days,
                             rate_data.duration_terms, "None")]),
     calls |-> <<Request("shipments.create")>>,
     self |-> self,
     args |-> <<from_address, to_address>>]

\* ---- EasyPost get_rates
\* One element of shipment.rates of the shipment with id shipment_id.
EasyPostRateData(shipment_id, i) ==
    [id |-> RateId(i), carrier |-> EasyPostService.carrier,
     service |-> EasyPostService.service, rate |-> EasyPostService.rate,
     delivery_days |-> "2", shipment_id |-> shipment_id]

EasyPostShipmentIds == {"shp_1", "shp_2"}

\* What self.client.shipment.create can answer (or raise).
EasyPostCreatedShipments ==
    {[raises |-> FALSE, id |-> sid, rates |-> [i \in 1..n |-> EasyPostRateData(sid, i)]] :
        sid \in EasyPostShipmentIds, n \in 0..MaxRates}
    \cup {[raises |-> TRUE, id |-> "None", rates |-> <<>>]}

\* Mutant of EasyPostGetRates: the rates do not carry the shipment id.
EasyPostGetRates_NoShipmentId(self, from_address, to_address, shipment) ==
    [out |-> IF shipment.raises
               THEN Raised(Exc("EasyPostError", "shipment request failed", "None"))
               ELSE Returned([i \in 1..Len(shipment.rates) |->
                        LET rate_data == shipment.rates[i] IN
                        Rate(rate_data.id, rate_data.carrier, rate_data.service,
                             rate_data.service, rate_data.rate,
                             rate_data.delivery_days, "None", "None")]),
     calls |-> <<Request("shipment.create")>>,
     self |-> self,
     args |-> <<from_address, to_address>>]

\* easypost_client.py 57-102: EasyPostClient.get_rates
EasyPostGetRates(self, from_address, to_address, shipment) ==
    [out |-> IF shipment.raises
               THEN Raised(Exc("EasyPostError", "shipment request failed", "None"))
               ELSE Returned([i \in 1..Len(shipment.rates) |->
                        LET rate_data == shipment.rates[i] IN
                        Rate(rate_data.id, rate_data.carrier, rate_data.service,
                             rate_data.service, rate_data.rate,
                             rate_data.delivery_days, "None", shipment.id)]),
     calls |-> <<Request("shipment.create")>>,
     self |-> self,
     args |-> <<from_address, to_address>>]

\* ---- ShipEngine get_rates
\* The "carriers" array of GET /carriers; an element can lack its carrier_id.
ShipEngineCarrierLists ==
    {<<>>,
     <<("nickname" :> "no id"), ("carrier_id" :> ShipEngineService.carrier_id)>>,
     <<("nickname" :> "no id")>>}

\* What GET /carriers can answer (or raise); parses: response.json() and the
\* reading of its carriers succeed.
ShipEngineCarrierAnswers ==
    {[raises |-> TRUE, status_code |-> 0, parses |-> FALSE, body |-> EmptyDict],
     [raises |-> FALSE, status_code |-> 401, parses |-> TRUE, body |-> EmptyDict],
     [raises |-> FALSE, status_code |-> 200, parses |-> FALSE, body |-> EmptyDict],
     [raises |-> FALSE, status_code |-> 200, parses |-> TRUE, body |-> EmptyDict]}
    \cup {[raises |-> FALSE, status_code |-> 200, parses |-> TRUE,
           body |-> ("carriers" :> l)] : l \in ShipEngineCarrierLists}

\* Mutant of GetCarrierIds: an empty cached list is fetched again.
GetCarrierIds_RefetchesEmpty(self, answer) ==
    IF ~self.carrier_ids.is_none /\ self.carrier_ids.ids # <<>>
      THEN [ids |-> self.carrier_ids.ids, self |-> self, calls |-> <<>>]
    ELSE IF answer.raises \/ answer.status_code # 200 \/ ~answer.parses
      THEN [ids |-> <<>>, self |-> self, calls |-> <<Request("GET /carriers")>>]
    ELSE LET carriers == DictGet(answer.body, "carriers", <<>>)
             kept == SelectSeq(carriers,
                               LAMBDA c : ~Falsy(DictGet(c, "carrier_id", "None")))
             ids == [i \in 1..Len(kept) |-> kept[i]["carrier_id"]]
         IN [ids |-> ids, self |-> [self EXCEPT !.carrier_ids = Cached(ids)],
             calls |-> <<Request("GET /carriers")>>]

\* Mutant of GetCarrierIds: a failed list-carriers call is cached as the
\* empty list.
GetCarrierIds_CachesFailure(self, answer) ==
    IF ~self.carrier_ids.is_none
      THEN [ids |-> self.carrier_ids.ids, self |-> self, calls |-> <<>>]
    ELSE IF answer.raises \/ answer.status_code # 200 \/ ~answer.parses
      THEN [ids |-> <<>>, self |-> [self EXCEPT !.carrier_ids = Cached(<<>>)],
            calls |-> <<Request("GET /carriers")>>]
    ELSE LET carriers == DictGet(answer.body, "carriers", <<>>)
             kept == SelectSeq(carriers,
                               LAMBDA c : ~Falsy(DictGet(c, "carrier_id", "None")))
             ids == [i \in 1..Len(kept) |-> kept[i]["carrier_id"]]
         IN [ids |-> ids, self |-> [self EXCEPT !.carrier_ids = Cached(ids)],
             calls |-> <<Request("GET /carriers")>>]

\* shipengine_client.py 38-68: ShipEngineClient._get_carrier_ids
GetCarrierIds(self, answer) ==
    IF ~self.carrier_ids.is_none
      THEN [ids |-> self.carrier_ids.ids, self |-> self, calls |-> <<>>]
    ELSE IF answer.raises \/ answer.status_code # 200 \/ ~answer.parses
      THEN [ids |-> <<>>, self |-> self, calls |-> <<Request("GET /carriers")>>]
    ELSE LET carriers == DictGet(answer.body, "carriers", <<>>)
             kept == SelectSeq(carriers,
                               LAMBDA c : ~Falsy(DictGet(c, "carrier_id", "None")))
             ids == [i \in 1..Len(kept) |-> kept[i]["carrier_id"]]
         IN [ids |-> ids, self |-> [self EXCEPT !.carrier_ids = Cached(ids)],
             calls |-> <<Request("GET /carriers")>>]

\* One element of rate_response.rates, and one that has only its id.
ShipEngineRateData(i) ==
    ("rate_id" :> RateId(i))
    @@ ("carrier_id" :> ShipEngineService.carrier_id)
    @@ ("carrier_friendly_name" :> ShipEngineService.carrier_friendly_name)
    @@ ("service_type" :> ShipEngineService.service_type)
    @@ ("service_code" :> ShipEngineService.service_code)
    @@ ("shipping_amount" :> ("amount" :> ShipEngineService.amount))
    @@ ("estimated_delivery_days" :> "2")

ShipEngineSparseRateData(i) == ("rate_id" :> RateId(i))

\* What POST /rates can answer (or raise).
ShipEngineRateAnswers ==
    {[raises |-> TRUE, status_code |-> 0, body |-> EmptyDict],
     [raises |-> FALSE, status_code |-> 400, body |-> EmptyDict],
     [raises |-> FALSE, status_code |-> 200, body |-> ("rate_response" :> EmptyDict)],
     [raises |-> FALSE, status_code |-> 200,
      body |-> ("rate_response" :> ("rates" :> <<ShipEngineSparseRateData(1)>>))]}
    \cup {[raises |-> FALSE, status_code |-> 200,
           body |-> ("rate_response" :>
                       ("rates" :> [i \in 1..n |-> ShipEngineRateData(i)]))] :
            n \in 0..MaxRates}

\* What one get_rates call can meet at the provider.
ShipEngineWorlds == [carriers : ShipEngineCarrierAnswers, rates : ShipEngineRateAnswers]

\* shipengine_client.py 136-175: the rate request and the mapping of its
\* answer.
ShipEngineRateRequest(answer) ==
    IF answer.raises
      THEN Raised(Exc("Exception", "ShipEngine API error", "connection error"))
    ELSE IF answer.status_code # 200
      THEN Raised(Exc("Exception", "ShipEngine error", "ShipEngine API returned status"))
    ELSE IF "rate_response" \in DOMAIN answer.body
              /\ "rates" \in DOMAIN answer.body["rate_response"]
      THEN Returned(
             LET rates == answer.body["rate_response"]["rates"] IN
             [i \in 1..Len(rates) |->
                LET rate_data == rates[i] IN
                Rate(DictGet(rate_data, "rate_id", ""),
                     DictGet(rate_data, "carrier_friendly_name", "Unknown"),
                     DictGet(rate_data, "service_type", ""),
                     DictGet(rate_data, "service_code", ""),
                     DictGet(DictGet(rate_data, "shipping_amount", EmptyDict), "amount", 0),
                     DictGet(rate_data, "estimated_delivery_days", "None"),
                     "None", "None")])
    ELSE Returned(<<>>)

\* Mutant of ShipEngineGetRates: the rate request is sent whatever the list
\* of carrier ids.
ShipEngineGetRates_AlwaysAsks(self, from_address, to_address, world) ==
    LET got == GetCarrierIds(self, world.carriers) IN
    [out |-> ShipEngineRateRequest(world.rates),
     calls |-> got.calls \o
                 <<[Request("POST /rates") EXCEPT !.carrier_ids = got.ids]>>,
     self |-> got.self,
     args |-> <<from_address, to_address>>]

\* shipengine_client.py 89-175: ShipEngineClient.get_rates
ShipEngineGetRates(self, from_address, to_address, world) ==
    LET got == GetCarrierIds(self, world.carriers) IN
    IF got.ids = <<>>
      THEN [out |-> Returned(<<>>), calls |-> got.calls, self |-> got.self,
            args |-> <<from_address, to_address>>]
      ELSE [out |-> ShipEngineRateRequest(world.rates),
            calls |-> got.calls \o
                        <<[Request("POST /rates") EXCEPT !.carrier_ids = got.ids]>>,
            self |-> got.self,
            args |-> <<from_address, to_address>>]

\* ---- Easyship get_rates
\* easyship_client.py 38: the provider's limit on contact_name.
ContactNameLimit == 22

\* Mutant of EasyshipAddressToDict: the name is sent as it is.
EasyshipAddressToDict_Untruncated(address) ==
    [line_1 |-> address.street1, city |-> address.city, state |-> address.state,
     postal_code |-> address.zip, country_alpha2 |-> address.country,
     contact_name |-> address.name]

\* easyship_client.py 35-57: EasyshipClient._address_to_dict (line_2,
\* contact_phone and contact_email are left out when the field is falsy).
EasyshipAddressToDict(address) ==
    [line_1 |-> address.street1, city |-> address.city, state |-> address.state,
     postal_code |-> address.zip, country_alpha2 |-> address.country,
     contact_name |-> IF Len(address.name) > ContactNameLimit
                        THEN Prefix(address.name, ContactNameLimit)
                        ELSE address.name]

\* One element of the "rates" array, in the shapes the provider sends.
EasyshipRateRecords ==
    <<("courier_id" :> "cour_1") @@ ("courier_name" :> "USPS")
        @@ ("full_description" :> "USPS - Priority Mail") @@ ("total_charge" :> 750)
        @@ ("min_delivery_time" :> "2") @@ ("max_delivery_time" :> "5"),
     ("courier_id" :> "cour_1") @@ ("full_description" :> "USPS - Priority Mail")
        @@ ("total_charge" :> 750),
     ("courier_id" :> "cour_5") @@ ("full_description" :> "UPS  - Ground")
        @@ ("total_charge" :> 800),
     ("courier_id" :> "cour_2") @@ ("courier_display_name" :> "FedEx Ground")
        @@ ("total_charge" :> 900),
     ("courier_id" :> "cour_3"),
     ("courier_id" :> "cour_4") @@ ("courier_name" :> "")
        @@ ("full_description" :> " - Express Saver") @@ ("total_charge" :> 1200),
     ("courier_id" :> "cour_6") @@ ("courier_name" :> "DHL")
        @@ ("full_description" :> "FedEx - International") @@ ("total_charge" :> -250)>>

\* The "rates" arrays: up to MaxRates records, every record in every place.
EasyshipRateLists ==
    {[i \in 1..n |-> EasyshipRateRecords[((i + k) % Len(EasyshipRateRecords)) + 1]] :
        n \in 0..MaxRates, k \in 1..Len(EasyshipRateRecords)}

\* What POST /rates can answer (or raise).
EasyshipRateAnswers ==
    {[raises |-> TRUE, status_code |-> 0, body |-> EmptyDict],
     [raises |-> FALSE, status_code |-> 422, body |-> EmptyDict],
     [raises |-> FALSE, status_code |-> 200, body |-> EmptyDict]}
    \cup {[raises |-> FALSE, status_code |-> 200, body |-> ("rates" :> l)] :
            l \in EasyshipRateLists}

\* Mutant of EasyshipCourierName: the text before " - " is taken as it is.
EasyshipCourierName_Unstripped(rate_data, service_name) ==
    LET courier_name == DictGet(rate_data, "courier_name", "") IN
    IF Falsy(courier_name) /\ ~Falsy(service_name)
      THEN IF Contains(service_name, " - ")
             THEN BeforeFirst(service_name, " - ")
           ELSE IF StartsWith(service_name, "FedEx") THEN "FedEx"
           ELSE "Unknown"
    ELSE IF Falsy(courier_name) THEN "Unknown"
    ELSE courier_name

\* easyship_client.py 120-136: the courier name of one rate record.
EasyshipCourierName(rate_data, service_name) ==
    LET courier_name == DictGet(rate_data, "courier_name", "") IN
    IF Falsy(courier_name) /\ ~Falsy(service_name)
      THEN IF Contains(service_name, " - ")
             THEN Strip(BeforeFirst(service_name, " - "))
           ELSE IF StartsWith(service_name, "FedEx") THEN "FedEx"
           ELSE "Unknown"
    ELSE IF Falsy(courier_name) THEN "Unknown"
    ELSE courier_name

\* easyship_client.py 59-161: EasyshipClient.get_rates
EasyshipGetRates(self, from_address, to_address, answer) ==
    [out |->
        IF answer.raises
          THEN Raised(Exc("Exception", "Easyship API error", "connection error"))
        ELSE IF answer.status_code # 200
          THEN Raised(Exc("Exception", "Easyship error", "Easyship API returned status"))
        ELSE IF "rates" \in DOMAIN answer.body
          THEN Returned(
                 LET rates == answer.body["rates"] IN
                 [i \in 1..Len(rates) |->
                    LET rate_data == rates[i]
                        service_name ==
                            DictGet(rate_data, "full_description",
                                    DictGet(rate_data, "courier_display_name", ""))
                        min_time == DictGet(rate_data, "min_delivery_time", "None")
                    IN Rate(DictGet(rate_data, "courier_id", ""),
                            EasyshipCourierName(rate_data, service_name),
                            service_name,
                            DictGet(rate_data, "courier_id", ""),
                            DictGet(rate_data, "total_charge", 0),
                            min_time,
                            IF Falsy(min_time) THEN "None"
                              ELSE min_time \o "-"
                                   \o DictGet(rate_data, "max_delivery_time", "?")
                                   \o " days",
                            "None")])
        ELSE Returned(<<>>),
     calls |-> <<[Request("POST /rates") EXCEPT
                    !.origin_name = EasyshipAddressToDict(from_address).contact_name,
                    !.destination_name = EasyshipAddressToDict(to_address).contact_name]>>,
     self |-> self,
     args |-> <<from_address, to_address>>]

\* ---- get_rates, whichever the adapter
\* What one get_rates call can meet at the provider.
RateWorlds(p) ==
    CASE p = "shippo" -> ShippoShipments
      [] p = "easypost" -> EasyPostCreatedShipments
      [] p = "shipengine" -> ShipEngineWorlds
      [] p = "easyship" -> EasyshipRateAnswers

\* client.get_rates(from_address, to_address, parcel)
AdapterGetRates(p, self, from_address, to_address, world) ==
    CASE p = "shippo" -> ShippoGetRates(self, from_address, to_address, world)
      [] p = "easypost" -> EasyPostGetRates(self, from_address, to_address, world)
      [] p = "shipengine" -> ShipEngineGetRates(self, from_address, to_address, world)
      [] p = "easyship" -> EasyshipGetRates(self, from_address, to_address, world)

\* ---- validate_address
\* The address fields of a provider's answer: the normalized address, or
\* nothing (every field None).
WireAddress ==
    [street1 |-> "2755 E PHILADELPHIA ST", street2 |-> "None", city |-> "ONTARIO",
     state |-> "CA", zip |-> "91761-1234", country |-> "US"]

NoWireAddress ==
    [street1 |-> "None", street2 |-> "None", city |-> "None", state |-> "None",
     zip |-> "None", country |-> "None"]

WireAddresses == {WireAddress, NoWireAddress}

\* return result
ReturnedResult(result) == [NoOutput EXCEPT !.ok = TRUE, !.validation = result]

\* models.py 7-18: Address(name=..., street1=..., ...) as validate_address
\* builds it from an answer; the required str fields reject None.
ValidatedAddress(address, street1, street2, city, state, zip, country, is_residential) ==
    IF "None" \in {street1, city, state, zip, country}
      THEN [ok |-> FALSE, address |-> NoAddress,
            exc |-> Exc("ValidationError", "Input should be a valid string", "None")]
      ELSE [ok |-> TRUE,
            address |-> [name |-> address.name, street1 |-> street1, street2 |-> street2,
                         city |-> city, state |-> state, zip |-> zip, country |-> country,
                         phone |-> address.phone, email |-> address.email,
                         is_residential |-> is_residential],
            exc |-> NoExc]

\* The message lists a provider attaches to a verdict.
VerdictMessages == {<<>>, <<"Address not found">>, <<"Address not found", "Invalid ZIP">>}

\* What self.client.addresses.create can answer (or raise).
ShippoValidations ==
    [raises : {FALSE}, is_valid : BOOLEAN, messages : VerdictMessages,
     address : WireAddresses]
    \cup {[raises |-> TRUE, is_valid |-> FALSE, messages |-> <<>>,
           address |-> NoWireAddress]}

\* shippo_client.py 162-207: ShippoClient.validate_address
ShippoValidateAddress(self, address, validated) ==
    [out |->
        IF validated.raises
          THEN Raised(Exc("SDKError", "address request failed", "None"))
        ELSE LET result == ValidationResult(validated.is_valid, validated.messages, address)
                 made == ValidatedAddress(address, validated.address.street1,
                            validated.address.street2, validated.address.city,
                            validated.address.state, validated.address.zip,
                            validated.address.country, address.is_residential)
             IN IF validated.is_valid
                  THEN IF made.ok
                         THEN ReturnedResult([result EXCEPT !.validated_address = made.address])
                         ELSE Raised(made.exc)
                  ELSE ReturnedResult(result),
     calls |-> <<Request("addresses.create")>>,
     self |-> self,
     args |-> <<address>>]

\* The exception self.client.address.create_and_verify raises when the request
\* fails.
EasyPostRequestError == Exc("EasyPostError", "address request failed", "None")

\* What self.client.address.create_and_verify can answer (or raise):
\* verifications.delivery can be missing.
EasyPostValidations ==
    [raises : {FALSE}, delivery : BOOLEAN, success : BOOLEAN, errors : VerdictMessages,
     address : WireAddresses, residential : BOOLEAN]
    \cup {[raises |-> TRUE, delivery |-> FALSE, success |-> FALSE, errors |-> <<>>,
           address |-> NoWireAddress, residential |-> FALSE]}

\* easypost_client.py 143-204: EasyPostClient.validate_address
EasyPostValidateAddress(self, address, validated) ==
    [out |->
        IF validated.raises
          THEN ReturnedResult(ValidationResult(FALSE, <<EasyPostRequestError.text>>, address))
        ELSE LET is_valid == validated.delivery /\ validated.success
                 messages == IF validated.delivery THEN validated.errors ELSE <<>>
                 result == ValidationResult(is_valid, messages, address)
                 made == ValidatedAddress(address, validated.address.street1,
                            Or(validated.address.street2, ""), validated.address.city,
                            validated.address.state, validated.address.zip,
                            validated.address.country, validated.residential)
             IN IF made.ok
                  THEN ReturnedResult([result EXCEPT !.validated_address = made.address])
                  ELSE ReturnedResult(ValidationResult(FALSE, <<made.exc.text>>, address)),
     calls |-> <<Request("address.create_and_verify")>>,
     self |-> self,
     args |-> <<address>>]

\* The address of a ShipEngine answer, as the "matched_address" object.
Matched(wire) ==
    ("address_line1" :> wire.street1) @@ ("city_locality" :> wire.city)
    @@ ("state_province" :> wire.state) @@ ("postal_code" :> wire.zip)
    @@ ("country_code" :> wire.country) @@ ("address_residential_indicator" :> "yes")

\* One element of the answer of POST /addresses/validate.
ShipEngineVerdicts ==
    {("status" :> st) @@ ("messages" :> m) : st \in {"verified", "warning", "unverified", "error"},
                                            m \in VerdictMessages}
    \cup {("status" :> st) @@ ("messages" :> m) @@ ("matched_address" :> Matched(WireAddress)) :
            st \in {"verified", "warning", "unverified", "error"}, m \in VerdictMessages}
    \cup {("messages" :> <<>>) @@ ("normalized_address" :> Matched(WireAddress))}

\* What POST /addresses/validate can answer (or raise).
ShipEngineValidations ==
    {[raises |-> TRUE, status_code |-> 0, data |-> <<>>],
     [raises |-> FALSE, status_code |-> 500, data |-> <<>>],
     [raises |-> FALSE, status_code |-> 200, data |-> <<>>]}
    \cup {[raises |-> FALSE, status_code |-> 200, data |-> <<v>>] : v \in ShipEngineVerdicts}

\* shipengine_client.py 230-326: ShipEngineClient.validate_address
ShipEngineValidateAddress(self, address, response) ==
    [out |->
        IF response.raises
          THEN Raised(Exc("Exception", "ShipEngine address validation error",
                          "connection error"))
        ELSE IF response.status_code # 200
          THEN Raised(Exc("Exception", "ShipEngine error", "ShipEngine API returned status"))
        ELSE IF response.data = <<>>
          THEN Raised(Exc("Exception", "ShipEngine error", "No validation result returned"))
        ELSE LET result_data == response.data[1]
                 status == DictGet(result_data, "status", "unverified")
                 is_valid == status \in {"verified", "warning"}
                 messages == SelectSeq(DictGet(result_data, "messages", <<>>),
                                       LAMBDA m : ~Falsy(m))
                 result == ValidationResult(is_valid, messages, address)
                 matched == DictGet(result_data, "matched_address",
                                    DictGet(result_data, "normalized_address", EmptyDict))
                 made == ValidatedAddress(address,
                            DictGet(matched, "address_line1", address.street1),
                            Or(DictGet(matched, "address_line2", ""), ""),
                            DictGet(matched, "city_locality", address.city),
                            DictGet(matched, "state_province", address.state),
                            DictGet(matched, "postal_code", address.zip),
                            DictGet(matched, "country_code", address.country),
                            DictGet(matched, "address_residential_indicator", "None") = "yes")
             IN IF status \in {"verified", "warning"} /\ matched # EmptyDict
                  THEN IF made.ok
                         THEN ReturnedResult([result EXCEPT !.validated_address = made.address])
                         ELSE Raised(Exc("Exception", "ShipEngine error",
                                         "Input should be a valid string"))
                  ELSE ReturnedResult(result),
     calls |-> <<Request("POST /addresses/validate")>>,
     self |-> self,
     args |-> <<address>>]

\* What one validate_address call can meet at the provider.
ValidationAnswers(p) ==
    CASE p = "shippo" -> ShippoValidations
      [] p = "easypost" -> EasyPostValidations
      [] p = "shipengine" -> ShipEngineValidations
      [] OTHER -> {}

\* client.validate_address(address)
AdapterValidateAddress(p, self, address, answer) ==
    CASE p = "shippo" -> ShippoValidateAddress(self, address, answer)
      [] p = "easypost" -> EasyPostValidateAddress(self, address, answer)
      [] p = "shipengine" -> ShipEngineValidateAddress(self, address, answer)

\* The provider's answer contains a normalized address.
HasNormalizedAddress(p, answer) ==
    CASE p = "shippo" -> ~answer.raises /\ answer.address # NoWireAddress
      [] p = "easypost" -> ~answer.raises /\ answer.address # NoWireAddress
      [] p = "shipengine" ->
           /\ ~answer.raises /\ answer.status_code = 200 /\ answer.data # <<>>
           /\ \/ "matched_address" \in DOMAIN answer.data[1]
              \/ "normalized_address" \in DOMAIN answer.data[1]
      [] OTHER -> FALSE

\* The validation call itself failed: the request raised (network or SDK
\* failure) or was answered with a status other than 2xx.
ValidationCallFailed(p, answer) ==
    CASE p = "shippo" -> answer.raises
      [] p = "easypost" -> answer.raises
      [] p = "shipengine" -> answer.raises \/ answer.status_code # 200
      [] OTHER -> FALSE

\* ---- purchase_label: the provider requests it issues
\* shippo_client.py 126-132
ShippoPurchaseRequests(rate_id) ==
    <<[Request("transactions.create") EXCEPT !.id = rate_id]>>

\* easypost_client.py 117-126: the rate is retrieved by its id and the
\* shipment bought is the one the retrieved rate names.
EasyPostPurchaseRequests(rate_id, retrieved, b) ==
    IF b.retrieve_raises
      THEN <<[Request("rate.retrieve") EXCEPT !.id = rate_id]>>
      ELSE <<[Request("rate.retrieve") EXCEPT !.id = rate_id],
             [Request("shipment.buy") EXCEPT !.id = retrieved.shipment_id]>>

\* shipengine_client.py 197-204
ShipEnginePurchaseRequests(rate_id) ==
    <<[Request("POST /labels/rates") EXCEPT !.id = rate_id]>>

AdapterPurchaseRequests(p, rate_id, retrieved, answer) ==
    CASE p = "shippo" -> ShippoPurchaseRequests(rate_id)
      [] p = "easypost" -> EasyPostPurchaseRequests(rate_id, retrieved, answer)
      [] p = "shipengine" -> ShipEnginePurchaseRequests(rate_id)

\* The rate object the provider holds for the i-th rate of the answer a
\* get_rates call met: its id and (EasyPost) the shipment it belongs to.
ProviderRate(p, world, i) ==
    IF p = "easypost"
      THEN [id |-> world.rates[i].id, shipment_id |-> world.rates[i].shipment_id]
      ELSE [id |-> RateId(i), shipment_id |-> "None"]

\* ---- the calls on one adapter instance
\* The names a caller's addresses carry: below, at and above the limit.
LongName == "JunQ Trading Technology Incorporated"

NameLengths == {ContactNameLimit - 1, ContactNameLimit, MaxNameLen}

RateAddresses == {Address(Prefix(LongName, n), "2755 E Philadelphia St") : n \in NameLengths}

ValidationAddresses ==
    {Address("Ann Lee", "2755 E Philadelphia St"), Address("Ann Lee", "999 Nowhere Rd")}

AdapterStart ==
    /\ aclass \in Providers
    /\ apc = "new"
    /\ inst = NoInstance
    /\ aop = "None"
    /\ ain = NoInput
    /\ asaw = NoAnswer
    /\ aout = NoOutput
    /\ net = <<>>
    /\ contacted = FALSE
    /\ verdicts = EmptyDict

\* <Class>(api_key=...): the constructor runs once; when it raises there is
\* no instance to call.
Construct ==
    /\ apc = "new"
    /\ \E api_key \in KeyArguments, fallback \in KeyFallbacks(aclass) :
         LET made == AdapterInit(aclass, api_key, fallback) IN
           /\ ain' = [NoInput EXCEPT !.api_key = api_key, !.fallback = fallback]
           /\ inst' = made.self
           /\ aout' = IF made.ok THEN [NoOutput EXCEPT !.ok = TRUE] ELSE Raised(made.exc)
           /\ apc' = IF made.ok THEN "ready" ELSE "failed"
    /\ aop' = "__init__"
    /\ UNCHANGED <<aclass, asaw, net, contacted, verdicts, rvars, pvars, svars, hvars>>

\* client.get_rates(from_address, to_address, parcel)
GetRates ==
    /\ apc = "ready"
    /\ \E f \in RateAddresses, t \in RateAddresses, world \in RateWorlds(aclass) :
         LET r == AdapterGetRates(aclass, inst, f, t, world) IN
           /\ ain' = [NoInput EXCEPT !.from_address = f, !.to_address = t,
                                     !.from_after = r.args[1],
                                     !.to_after = r.args[2]]
           /\ asaw' = [provider |-> aclass, answer |-> world]
           /\ aout' = r.out
           /\ net' = r.calls
           /\ inst' = r.self
           /\ contacted' = (contacted \/ r.calls # <<>>)
    /\ aop' = "get_rates"
    /\ UNCHANGED <<aclass, apc, verdicts, rvars, pvars, svars, hvars>>

\* client.purchase_label(rate.object_id, label_format) for a rate of the
\* get_rates call just made on this instance.
BuyRate ==
    /\ apc = "ready"
    /\ "purchase_label" \in AdapterOperations(aclass)
    /\ aop = "get_rates"
    /\ aout.ok
    /\ \E i \in 1..Len(aout.rates), label_format \in {"PDF", "PNG"},
          a \in ProviderAnswers(aclass) :
         LET rate == aout.rates[i]
             retrieved == ProviderRate(aclass, asaw.answer, i)
             calls == AdapterPurchaseRequests(aclass, rate.object_id, retrieved, a.answer)
         IN
           /\ ain' = [NoInput EXCEPT !.rate_id = rate.object_id,
                                     !.label_format = label_format]
           /\ asaw' = [provider |-> aclass,
                       answer |-> [bought |-> a.answer, retrieved |-> retrieved]]
           /\ aout' = [NoOutput EXCEPT
                         !.ok = AdapterPurchaseLabel(a, label_format).ok,
                         !.label = AdapterPurchaseLabel(a, label_format).label,
                         !.exc = AdapterPurchaseLabel(a, label_format).exc]
           /\ net' = calls
           /\ contacted' = (contacted \/ calls # <<>>)
    /\ aop' = "purchase_label"
    /\ UNCHANGED <<aclass, apc, inst, verdicts, rvars, pvars, svars, hvars>>

\* The provider's side of validate_address: its address database does not
\* change, so an address it has answered for is answered the same way again.
\* verdicts[a] is the provider's answer for a, the outcome of the first call
\* for a, and the number of calls made for a.
Asked(a) == IF a \in DOMAIN verdicts THEN verdicts[a].asked ELSE 0

VerdictsFor(a) ==
    IF a \in DOMAIN verdicts THEN {verdicts[a].answer} ELSE ValidationAnswers(aclass)

\* Mutant of ValidateAddress: the instance remembers that it has been asked
\* and answers a repeated address from a stale, empty result.
ValidateAddress_Remembers ==
    /\ apc = "ready"
    /\ "validate_address" \in AdapterOperations(aclass)
    /\ \E a \in ValidationAddresses : \E v \in VerdictsFor(a) :
         LET r == AdapterValidateAddress(aclass, inst, a, v) IN
           /\ Asked(a) < MaxCalls
           /\ ain' = [NoInput EXCEPT !.address = a, !.address_after = r.args[1]]
           /\ asaw' = [provider |-> aclass, answer |-> v]
           /\ aout' = IF a \in DOMAIN verdicts
                        THEN ReturnedResult(ValidationResult(FALSE, <<>>, a))
                        ELSE r.out
           /\ net' = r.calls
           /\ inst' = r.self
           /\ contacted' = (contacted \/ r.calls # <<>>)
           /\ verdicts' = IF a \in DOMAIN verdicts
                            THEN [verdicts EXCEPT ![a].asked = @ + 1]
                            ELSE DictSet(verdicts, a,
                                         [answer |-> v, first |-> r.out, asked |-> 1])
    /\ aop' = "validate_address"
    /\ UNCHANGED <<aclass, apc, rvars, pvars, svars, hvars>>

\* client.validate_address(address)
ValidateAddress ==
    /\ apc = "ready"
    /\ "validate_address" \in AdapterOperations(aclass)
    /\ \E a \in ValidationAddresses : \E v \in VerdictsFor(a) :
         LET r == AdapterValidateAddress(aclass, inst, a, v) IN
           /\ Asked(a) < MaxCalls
           /\ ain' = [NoInput EXCEPT !.address = a, !.address_after = r.args[1]]
           /\ asaw' = [provider |-> aclass, answer |-> v]
           /\ aout' = r.out
           /\ net' = r.calls
           /\ inst' = r.self
           /\ contacted' = (contacted \/ r.calls # <<>>)
           /\ verdicts' = IF a \in DOMAIN verdicts
                            THEN [verdicts EXCEPT ![a].asked = @ + 1]
                            ELSE DictSet(verdicts, a,
                                         [answer |-> v, first |-> r.out, asked |-> 1])
    /\ aop' = "validate_address"
    /\ UNCHANGED <<aclass, apc, rvars, pvars, svars, hvars>>

\* client.<operation>(...) for an operation the class does not define.
CallUndefined ==
    /\ apc = "ready"
    /\ \E op \in {"purchase_label", "validate_address"} \ AdapterOperations(aclass) :
         /\ aop' = op
         /\ aout' = Raised(Exc("AttributeError", "object has no attribute", op))
    /\ ain' = NoInput
    /\ asaw' = NoAnswer
    /\ net' = <<>>
    /\ UNCHANGED <<aclass, apc, inst, contacted, verdicts, rvars, pvars, svars, hvars>>

QuoteNext ==
    \/ Construct
    \/ GetRates
    \/ BuyRate
    \/ CallUndefined

ValidateNext ==
    \/ Construct
    \/ ValidateAddress
    \/ CallUndefined

\* One adapter instance is constructed and called; no request is in flight.
InitAdapter == AdapterStart /\ RatesIdle /\ PurchaseIdle /\ SerializerIdle /\ HistoryIdle

\* The instance is asked for rates and for labels of the rates it returned.
SpecQuote == InitAdapter /\ [][QuoteNext]_vars

\* The instance is asked to validate addresses.
SpecValidate == InitAdapter /\ [][ValidateNext]_vars

\* =========================================================================
\* Properties of the label purchase (checked under SpecPurchase)
\* =========================================================================
AnsweredSuccess == \E b \in Bodies(pwire) : b.success

AnsweredError == \E b \in Bodies(pwire) : ~b.success

\* The success body carries the data of the label the adapter returned.
CarriesLabel(b) ==
    /\ b.success
    /\ b.data.tracking_number = label.tracking_number
    /\ b.data.label_url_temp = label.label_url

\* C5: a purchase call is all-or-nothing: when the handler is done, either
\* the provider purchase was committed and the answer is success=true with
\* the label data, or the answer is success=false and no purchase was
\* committed at the provider.
C5_PurchaseAllOrNothing ==
    ppc = "done" =>
        \/ /\ committed
           /\ \E b \in Bodies(pwire) : CarriesLabel(b)
           /\ ~AnsweredError
        \/ /\ ~committed
           /\ AnsweredError
           /\ ~AnsweredSuccess

\* C6: every ShippingLabel that an adapter's purchase_label returns (Shippo,
\* EasyPost, ShipEngine) has a non-empty label_url: an accepted purchase
\* whose answer carries no label URL fails instead of returning a label.
C6_ReturnedLabelHasUrl ==
    label # NoLabel => label.label_url \notin {"", "None"}

\* The message a failed Shippo transaction is reported with.
FirstMessage(t) == IF t.messages = <<>> THEN "Unknown error" ELSE Head(t.messages)

\* A Shippo transaction came back with a status other than "SUCCESS".
ShippoNotSuccess ==
    /\ answered.provider = "shippo"
    /\ ~answered.answer.raises
    /\ answered.answer.status # "SUCCESS"

\* C7: a Shippo purchase whose transaction status is not "SUCCESS" fails with
\* a purchase error carrying the provider's first message ("Unknown error"
\* when there is none); no ShippingLabel is produced, no download and no
\* Drive upload is attempted, and the handler's answer is status 500 with
\* success=false and that error text.
C7_ShippoFailedTransaction ==
    ShippoNotSuccess =>
        /\ label = NoLabel
        /\ downloaded = "no"
        /\ ~uploaded
        /\ pexc = Exc("Exception", "Label purchase failed", FirstMessage(answered.answer))
        /\ ppc \in {"except", "done"}
        /\ ppc = "done" =>
             pwire = <<StatusLine(500),
                       ErrorEnvelope(Exc("Exception", "Label purchase failed",
                                         FirstMessage(answered.answer)))>>

\* C7 witness: a failed Shippo transaction with two messages has been
\* answered.
C7_Witness ==
    /\ ShippoNotSuccess
    /\ Len(answered.answer.messages) = 2
    /\ ppc = "done"
    /\ AnsweredError

\* C8: a purchase request naming any of the four providers the handler
\* accepts (with its key configured) reaches that adapter's purchase_label:
\* once the handler is past the purchase step, the adapter has been called.
C8_EveryAdapterPurchases ==
    (/\ ppc \in {"download", "drive", "respond", "except", "done"}
     /\ preq.rate_id # "None"
     /\ preq.provider \in Providers \cap pkeys) =>
        /\ answered.provider = preq.provider
        /\ pexc.kind # "AttributeError"

\* C9: the Drive upload never fails a purchase: when the provider call and
\* the label download succeeded and the label was not uploaded (Drive
\* unconfigured, or its upload raised), the handler's answer is success=true
\* with the label data, a null Drive link and file id, and a warning.
C9_DriveNeverFailsPurchase ==
    (ppc = "done" /\ downloaded = "ok" /\ drive.link = "None") =>
        /\ ~AnsweredError
        /\ \E b \in Bodies(pwire) :
             /\ CarriesLabel(b)
             /\ b.data.google_drive_link = "None"
             /\ b.data.google_drive_file_id = "None"
             /\ b.warning # Text("None")

\* =========================================================================
\* Properties of the rate fan-out (checked under SpecRates)
\* =========================================================================
Keys(d) == DOMAIN d

\* The fan-out ran and is over: the handler has left the executor block.
FanOutOver == bodyValid /\ rpc \in {"respond", "except", "done"}

\* C1: for every set S of configured providers and every combination of unit
\* outcomes (returns, raises, unfinished at the deadline), once the fan-out
\* is over the key sets of the results map and of the errors map are
\* disjoint and their union is exactly S.
C1_MapsPartitionConfigured ==
    FanOutOver =>
        /\ Keys(results) \cap Keys(errors) = {}
        /\ Keys(results) \cup Keys(errors) = configured

\* C2: every configured provider whose unit had not finished when the
\* fan-out deadline elapsed has the entry "Request timed out" in the errors
\* map of the response, and the response still carries the results of the
\* providers that finished in time.
C2_LateUnitsReportedTimedOut ==
    (bodyValid /\ rpc = "done" /\ lateUnits # {}) =>
        \E b \in Bodies(rwire) :
            /\ b.success
            /\ \A p \in lateUnits :
                 p \in Keys(b.errors) /\ b.errors[p] = Text("Request timed out")
            /\ \A q \in futures \ lateUnits :
                 unitOut[q].ok => (q \in Keys(b.data) /\ b.data[q] = unitOut[q].rates)

\* C3: when a unit raises (an ordinary exception, before the deadline), the
\* handler still answers with the success envelope; in it errors[provider] is
\* the exception message of every such unit and every other provider that
\* returned rates before the deadline is in the results map with all of its
\* rates.
C3_RaisingUnitLeavesSiblingsAlone ==
    (/\ bodyValid
     /\ rpc = "done"
     /\ \E p \in futures \ lateUnits : unitOut[p].exc.kind = "Exception") =>
        \E b \in Bodies(rwire) :
            /\ b.success
            /\ \A p \in futures \ lateUnits :
                 unitOut[p].exc.kind = "Exception" =>
                     (p \in Keys(b.errors) /\ b.errors[p] = Str(unitOut[p].exc))
            /\ \A q \in futures \ lateUnits :
                 unitOut[q].ok => (q \in Keys(b.data) /\ b.data[q] = unitOut[q].rates)

\* C4: the fan-out returns once all units have finished or the deadline has
\* elapsed, whichever comes first: once the collection loop is over (by
\* exhaustion or by the deadline) the coordinator can go on to its response
\* without waiting for a running unit, and nothing a unit produced after being
\* abandoned appears in a response.
C4_ReturnsAtDeadlineWithoutWaiting ==
    /\ rpc = "shutdown" => ENABLED ExecutorExit
    /\ \A b \in Bodies(rwire) : \A p \in Keys(b.data) : p \in yielded

\* C10: with no provider key configured the fan-out submits no unit, both
\* maps stay empty, nothing is raised, and the handler's answer is status 200
\* with the success envelope carrying empty data and empty errors.
C10_NoProvidersIsSuccess ==
    (bodyValid /\ configured = {}) =>
        /\ futures = {}
        /\ \A p \in Providers : submits[p] = 0 /\ unit[p] = "none"
        /\ results = EmptyDict /\ errors = EmptyDict
        /\ rexc = NoExc
        /\ rpc # "except"
        /\ rpc = "done" =>
             rwire = <<StatusLine(200), SuccessEnvelope(EmptyDict, EmptyDict)>>

\* C10 witness: a request with no provider configured has been answered.
C10_Witness ==
    /\ bodyValid /\ configured = {} /\ rpc = "done"
    /\ Len(rwire) = 2 /\ rwire[2].success

\* The handler has been through its submit statements.
Submitted == bodyValid /\ rpc \in {"collect", "shutdown", "respond", "except", "done"}

\* C11: for one rate request exactly one unit of work is submitted per
\* configured provider and none for an unconfigured one: no provider is ever
\* submitted twice, a unit never runs again once it has finished or for a
\* provider without a key, and the number of submitted units equals the
\* number of configured providers, which is at most the pool size of 4.
C11_OneUnitPerConfiguredProvider ==
    /\ \A p \in Providers : submits[p] <= 1
    /\ \A p \in Providers : unit[p] # "none" => (p \in configured /\ submits[p] = 1)
    /\ Submitted =>
         /\ \A p \in Providers : submits[p] = IF p \in configured THEN 1 ELSE 0
         /\ futures = configured
         /\ Cardinality(futures) = Cardinality(configured)
         /\ Cardinality(futures) <= PoolSize

\* C11 witness: a request with two of the four providers configured has been
\* answered; each of the two was submitted once, the others never.
C11_Witness ==
    /\ rpc = "done"
    /\ configured = {"shippo", "easyship"}
    /\ submits["shippo"] = 1 /\ submits["easyship"] = 1
    /\ submits["easypost"] = 0 /\ submits["shipengine"] = 0
    /\ Cardinality(futures) = 2

\* -------------------------------------------------------------------------
\* Properties of the provider adapters

\* No API key is available to the constructor call just made: none was
\* passed and the fallback (environment, config) holds none.
NoKeyAvailable == Falsy(ain.api_key) /\ Falsy(ain.fallback)

\* C12: for each of the four adapters, construction without an available API
\* key fails with the configuration error (ValueError) in the constructor
\* itself: no instance results, no request is ever issued and no operation
\* can be called; an instance that exists holds a key, so no later
\* get_rates, purchase_label or validate_address raises the configuration
\* error.
C12_MissingKeyFailsAtConstruction ==
    /\ aop = "__init__" =>
         /\ NoKeyAvailable <=> apc = "failed"
         /\ NoKeyAvailable =>
              /\ ~aout.ok
              /\ aout.exc.kind = "ValueError"
              /\ aout.exc.text = "API key not configured"
    /\ apc = "failed" =>
         /\ aop = "__init__"
         /\ inst = NoInstance
         /\ net = <<>>
         /\ ~contacted
    /\ apc = "ready" =>
         /\ ~Falsy(inst.api_key)
         /\ aop # "__init__" => aout.exc.kind # "ValueError"

\* C12 witness: ShipEngineClient() was constructed with no key passed and
\* an empty SHIPENGINE_API_KEY, and the constructor raised.
C12_Witness ==
    /\ aclass = "shipengine"
    /\ aop = "__init__"
    /\ ain.api_key = "None" /\ ain.fallback = ""
    /\ apc = "failed"
    /\ aout.exc.kind = "ValueError"

\* The provider answered the rate request of get_rates successfully and its
\* rate list is empty.
EmptyRateList(p, world) ==
    CASE p = "shippo" -> ~world.raises /\ world.rates = <<>>
      [] p = "easypost" -> ~world.raises /\ world.rates = <<>>
      [] p = "shipengine" ->
           /\ ~world.rates.raises /\ world.rates.status_code = 200
           /\ "rate_response" \in DOMAIN world.rates.body
           /\ DictGet(world.rates.body["rate_response"], "rates", <<>>) = <<>>
      [] p = "easyship" ->
           /\ ~world.raises /\ world.status_code = 200
           /\ DictGet(world.body, "rates", <<>>) = <<>>

\* The adapter half of C13: on a successful answer with an empty rate list
\* every adapter's get_rates returns the empty sequence and does not raise.
EmptyRateListReturnsEmpty ==
    (aop = "get_rates" /\ EmptyRateList(aclass, asaw.answer)) =>
        (aout.ok /\ aout.rates = <<>> /\ aout.exc = NoExc)

\* C13: a provider whose get_rates returned the empty sequence (its unit
\* returned an empty list before the deadline) appears in the results map
\* of the handler's answer with an empty list and not in the errors map.
C13_EmptyRateListIsAResult ==
    (/\ bodyValid
     /\ rpc = "done"
     /\ \E p \in futures \ lateUnits : unitOut[p].ok /\ unitOut[p].rates = <<>>) =>
        \E b \in Bodies(rwire) :
            /\ b.success
            /\ \A p \in futures \ lateUnits :
                 (unitOut[p].ok /\ unitOut[p].rates = <<>>) =>
                     /\ p \in Keys(b.data)
                     /\ b.data[p] = <<>>
                     /\ p \notin Keys(b.errors)

\* The list of connected carrier ids a ShipEngine get_rates call works with
\* is empty: the instance holds an empty list, or it holds none and the
\* list-carriers call raised, was answered with a status other than 200, or
\* named no carrier with an id.
NoCarrierIds(self, answer) ==
    IF ~self.carrier_ids.is_none
      THEN self.carrier_ids.ids = <<>>
      ELSE \/ answer.raises
           \/ answer.status_code # 200
           \/ ~answer.parses
           \/ LET carriers == DictGet(answer.body, "carriers", <<>>) IN
              \A i \in 1..Len(carriers) : Falsy(DictGet(carriers[i], "carrier_id", "None"))

\* The requests of the given endpoint among those a call issued.
Sent(endpoint) == {i \in 1..Len(net) : net[i].endpoint = endpoint}

\* C14: ShipEngine get_rates sends the rate request only when the list of
\* connected carrier ids is non-empty, and then with that list; when the
\* list is empty it returns the empty sequence, raises nothing and sends no
\* rate request, whatever the rate endpoint would have answered.
C14_RateRequestOnlyWithCarriers ==
    [][(aclass = "shipengine" /\ apc = "ready" /\ aop' = "get_rates") =>
          /\ NoCarrierIds(inst, asaw'.answer.carriers) =>
                /\ aout' = Returned(<<>>)
                /\ \A i \in 1..Len(net') : net'[i].endpoint # "POST /rates"
          /\ ~NoCarrierIds(inst, asaw'.answer.carriers) =>
                /\ Len(net') >= 1
                /\ net'[Len(net')].endpoint = "POST /rates"
                /\ net'[Len(net')].carrier_ids # <<>>
                /\ \A i \in 1..(Len(net') - 1) : net'[i].endpoint # "POST /rates"
      ]_vars

\* C14 witness: the list-carriers call was answered 401, the rate endpoint
\* would have answered with rates, and get_rates returned the empty sequence
\* after the list-carriers request alone.
C14_Witness ==
    /\ aclass = "shipengine"
    /\ aop = "get_rates"
    /\ asaw.answer.carriers.status_code = 401
    /\ asaw.answer.rates.status_code = 200
    /\ "rate_response" \in DOMAIN asaw.answer.rates.body
    /\ DictGet(asaw.answer.rates.body["rate_response"], "rates", <<>>) # <<>>
    /\ aout = Returned(<<>>)
    /\ net = <<Request("GET /carriers")>>
    /\ Sent("POST /rates") = {}

\* The shipment.buy request of the call just made, if it sent one.
Buy == net[CHOOSE i \in Sent("shipment.buy") : TRUE]

OmitsService(p, bought) ==
    CASE p = "shippo" -> bought.rate_is_str
      [] p = "easypost" -> ~bought.selected_rate
      [] OTHER -> FALSE

\* C16: round trip: when the object_id of a Rate r returned by get_rates is
\* passed to purchase_label on the same instance and the purchase succeeds,
\* the label's carrier is r.provider and its service is r.servicelevel_name,
\* or both are "Unknown" when the purchase response omits them.
C16_LabelMatchesRate ==
    [][(aop = "get_rates" /\ aop' = "purchase_label" /\ aout'.ok) =>
          \A i \in 1..Len(aout.rates) :
              aout.rates[i].object_id = ain'.rate_id =>
                  IF OmitsService(aclass, asaw'.answer.bought)
                    THEN /\ aout'.label.carrier = "Unknown"
                         /\ aout'.label.service = "Unknown"
                    ELSE /\ aout'.label.carrier = aout.rates[i].provider
                         /\ aout'.label.service = aout.rates[i].servicelevel_name
      ]_vars

\* C17: whenever the provider's answer to validate_address contains a
\* normalized address, the call returns a ValidationResult whose
\* validated_address is that address, whether is_valid is true or false.
C17_NormalizedAddressSurfaced ==
    (/\ aop = "validate_address"
     /\ "validate_address" \in AdapterOperations(aclass)
     /\ HasNormalizedAddress(aclass, asaw.answer)) =>
        /\ aout.ok
        /\ aout.validation.validated_address # NoAddress
        /\ aout.validation.validated_address.street1 = WireAddress.street1
        /\ aout.validation.validated_address.zip = WireAddress.zip

\* C18: when the validation call itself fails (the request raises or is
\* answered with a status other than 2xx) validate_address does not raise:
\* it returns a ValidationResult with is_valid false, one message, the
\* original address unchanged and no validated_address.
C18_FailedValidationDegrades ==
    (/\ aop = "validate_address"
     /\ "validate_address" \in AdapterOperations(aclass)
     /\ ValidationCallFailed(aclass, asaw.answer)) =>
        /\ aout.ok
        /\ aout.exc = NoExc
        /\ ~aout.validation.is_valid
        /\ Len(aout.validation.messages) = 1
        /\ aout.validation.original_address = ain.address
        /\ aout.validation.validated_address = NoAddress

RateRequest == net[CHOOSE i \in Sent("POST /rates") : TRUE]

\* name[:22] when the name has more than 22 characters, else the name.
First22(name) == IF Len(name) > 22 THEN SubSeq(name, 1, 22) ELSE name

\* C20: every Easyship rate request carries, for the origin and for the
\* destination, the first 22 characters of the address name when the name is
\* longer than 22 characters and the name itself otherwise, so never more
\* than 22 characters; the caller's Address objects are as they were.
C20_ContactNameTruncated ==
    (aclass = "easyship" /\ aop = "get_rates") =>
        /\ Cardinality(Sent("POST /rates")) = 1
        /\ RateRequest.origin_name = First22(ain.from_address.name)
        /\ RateRequest.destination_name = First22(ain.to_address.name)
        /\ Len(RateRequest.origin_name) <= 22
        /\ Len(RateRequest.destination_name) <= 22
        /\ ain.from_after = ain.from_address
        /\ ain.to_after = ain.to_address

\* C20 witness: the destination name has more than 22 characters and the
\* origin name exactly 22; the request carries 22 characters for both and
\* the destination Address still holds the full name.
C20_Witness ==
    /\ aclass = "easyship"
    /\ aop = "get_rates"
    /\ Len(ain.to_address.name) > 22
    /\ Len(ain.from_address.name) = 22
    /\ RateRequest.destination_name = "JunQ Trading Technolog"
    /\ RateRequest.origin_name = ain.from_address.name
    /\ ain.to_after.name = ain.to_address.name

\* The rate records of the answer the Easyship get_rates call just made
\* returned rates for.
EasyshipRecords == DictGet(asaw.answer.body, "rates", <<>>)

\* The service description of a rate record, "" when it has none.
Description(rec) ==
    DictGet(rec, "full_description", DictGet(rec, "courier_display_name", ""))

\* The provider C21 states for a rate record; before is the text before the
\* first " - " of the description.
StatedProvider(rec, before) ==
    IF DictGet(rec, "courier_name", "") # "" THEN rec["courier_name"]
    ELSE IF Description(rec) = "" THEN "Unknown"
    ELSE IF Contains(Description(rec), " - ") THEN before
    ELSE IF StartsWith(Description(rec), "FedEx") THEN "FedEx"
    ELSE "Unknown"

\* Easyship get_rates has just returned the Rates of the answer's records.
EasyshipReturned ==
    /\ aclass = "easyship" /\ aop = "get_rates" /\ aout.ok
    /\ Len(aout.rates) = Len(EasyshipRecords)

\* C21 as stated: the provider of every Easyship Rate is the record's
\* non-empty courier name, else the text before the first " - " of the
\* description exactly as it stands, else "FedEx" for a description starting
\* with "FedEx", else "Unknown".
C21_ProviderIsTextBeforeDash ==
    EasyshipReturned =>
        \A i \in 1..Len(aout.rates) :
            aout.rates[i].provider =
                StatedProvider(EasyshipRecords[i],
                               BeforeFirst(Description(EasyshipRecords[i]), " - "))

\* C21, amended: the provider of every Easyship Rate is the record's
\* non-empty courier name; when that is absent or empty it is the text
\* before the first " - " of the description with leading and trailing
\* whitespace removed if the description contains " - ", else "FedEx" if the
\* description starts with "FedEx", else "Unknown" (also for an empty
\* description).  "USPS - Priority Mail" gives "USPS".
C21_ProviderIsStrippedTextBeforeDash ==
    EasyshipReturned =>
        \A i \in 1..Len(aout.rates) :
            aout.rates[i].provider =
                StatedProvider(EasyshipRecords[i],
                               Strip(BeforeFirst(Description(EasyshipRecords[i]), " - ")))

\* C21 witness: get_rates returned Rates for a record without courier name
\* described "USPS - Priority Mail" (provider "USPS") and for a record
\* described "UPS  - Ground" (provider "UPS").
C21_Witness ==
    /\ EasyshipReturned
    /\ \E i \in 1..Len(aout.rates) :
         /\ "courier_name" \notin DOMAIN EasyshipRecords[i]
         /\ Description(EasyshipRecords[i]) = "USPS - Priority Mail"
         /\ aout.rates[i].provider = "USPS"
    /\ \E i \in 1..Len(aout.rates) :
         /\ Description(EasyshipRecords[i]) = "UPS  - Ground"
         /\ aout.rates[i].provider = "UPS"

\* C30: every Rate returned by Easyship get_rates has a non-empty provider:
\* a carrier name or "Unknown".
C30_ProviderNeverEmpty ==
    (aclass = "easyship" /\ aop = "get_rates" /\ aout.ok) =>
        \A i \in 1..Len(aout.rates) :
            /\ aout.rates[i].provider # ""
            /\ aout.rates[i].provider # "None"

\* C24: every Rate returned by get_rates of any adapter has a non-negative
\* amount.
C24_AmountNeverNegative ==
    (aop = "get_rates" /\ aout.ok) =>
        \A i \in 1..Len(aout.rates) : aout.rates[i].amount >= 0

\* A call on a ShipEngine instance whose carrier-id cache holds a list.
CacheHeld == aclass = "shipengine" /\ apc = "ready" /\ ~inst.carrier_ids.is_none

\* C25: once the carrier-id cache of a ShipEngine instance holds a list (an
\* empty list included), no call changes the cached value, and every later
\* get_rates takes the carrier ids from the cache: it issues no
\* list-carriers request, sends its rate request with the cached list, and
\* with an empty cached list returns the empty sequence without any request.
C25_CacheReadOnceHeld ==
    [][CacheHeld =>
          /\ inst'.carrier_ids = inst.carrier_ids
          /\ aop' = "get_rates" =>
               /\ \A i \in 1..Len(net') : net'[i].endpoint # "GET /carriers"
               /\ \A i \in 1..Len(net') :
                    net'[i].endpoint = "POST /rates" =>
                        net'[i].carrier_ids = inst.carrier_ids.ids
               /\ inst.carrier_ids.ids = <<>> => (net' = <<>> /\ aout' = Returned(<<>>))
               /\ inst.carrier_ids.ids # <<>> => Len(net') = 1
      ]_vars

\* C25 witness: get_rates was called on an instance whose cache holds the
\* empty list while the provider would now list a carrier: no request was
\* issued and the cache still holds the empty list.
C25_Witness ==
    /\ aclass = "shipengine"
    /\ aop = "get_rates"
    /\ inst.carrier_ids = Cached(<<>>)
    /\ asaw.answer.carriers.status_code = 200
    /\ DictGet(asaw.answer.carriers.body, "carriers", <<>>) # <<>>
    /\ net = <<>>
    /\ aout = Returned(<<>>)

\* The list-carriers call was answered with status 200 and a body that
\* parses.
CarriersListed(answer) == ~answer.raises /\ answer.status_code = 200 /\ answer.parses

\* C26: a get_rates call on a ShipEngine instance whose cache is unset
\* issues the list-carriers request first, and the cache is set by it
\* exactly when the answer has status 200 and a body that parses; on another
\* status or an exception the cache stays unset, get_rates returns the empty
\* sequence after that one request, and so the next get_rates issues the
\* list-carriers request again.
C26_CacheSetOnlyOnSuccess ==
    [][(/\ aclass = "shipengine" /\ apc = "ready"
        /\ inst.carrier_ids.is_none
        /\ aop' = "get_rates") =>
          /\ Len(net') >= 1
          /\ net'[1].endpoint = "GET /carriers"
          /\ CarriersListed(asaw'.answer.carriers) <=> ~inst'.carrier_ids.is_none
          /\ ~CarriersListed(asaw'.answer.carriers) =>
               /\ inst' = inst
               /\ aout' = Returned(<<>>)
               /\ Len(net') = 1
      ]_vars

\* C26 witness: the list-carriers request raised; get_rates returned the
\* empty sequence, the cache is unset and a further get_rates can be made
\* on the instance.
C26_Witness ==
    /\ aclass = "shipengine"
    /\ aop = "get_rates"
    /\ asaw.answer.carriers.raises
    /\ inst.carrier_ids.is_none
    /\ net = <<Request("GET /carriers")>>
    /\ aout = Returned(<<>>)
    /\ ENABLED GetRates

\* -------------------------------------------------------------------------
\* Further properties of the label purchase

\* The elements of a sequence.
Range(q) == {q[i] : i \in DOMAIN q}

\* The status codes of the status lines a handler has written, in order.
StatusCodes(wire) ==
    LET lines == SelectSeq(wire, LAMBDA w : w.item = "status")
    IN [i \in 1..Len(lines) |-> lines[i].status]

\* C27: for every purchase request the handler writes exactly one status
\* line followed by exactly one JSON envelope: the success envelope with the
\* label's data after status 200, the error envelope after status 500; no
\* request has both a 200 and a 500 status line, and a request whose
\* provider purchase and label download succeeded ends with status 200 and
\* the success envelope.
C27_OneStatusThenOneEnvelope ==
    /\ ~(200 \in Range(StatusCodes(pwire)) /\ 500 \in Range(StatusCodes(pwire)))
    /\ ppc = "done" =>
         /\ Len(pwire) = 2
         /\ pwire[1].item = "status"
         /\ pwire[2].item = "body"
         /\ pwire[1].status \in {200, 500}
         /\ pwire[1].status = 200 => CarriesLabel(pwire[2])
         /\ pwire[1].status = 500 => ~pwire[2].success
         /\ downloaded = "ok" => (pwire[1].status = 200 /\ pwire[2].success)


\* ===================================================== the serializers
\* api/rates.py handler._serialize_rate, api/validate.py
\* handler._serialize_address
\* A Python value: its type and its repr.
Py(type, repr) == [type |-> type, repr |-> repr]

PyNone == [type |-> "NoneType", repr |-> "None"]

\* float() of the strings the model uses.
FloatOfString == ("7.50" :> "7.5") @@ ("12" :> "12.0")

\* rates.py 169: float(rate.amount)
Float(v) ==
    CASE v.type = "float" -> [ok |-> TRUE, value |-> v, exc |-> NoExc]
      [] v.type \in {"int", "bool"} ->
            [ok |-> TRUE, value |-> Py("float", v.repr \o ".0"), exc |-> NoExc]
      [] v.type = "str" /\ v.repr \in DOMAIN FloatOfString ->
            [ok |-> TRUE, value |-> Py("float", FloatOfString[v.repr]), exc |-> NoExc]
      [] v.type = "str" /\ v.repr \notin DOMAIN FloatOfString ->
            [ok |-> FALSE, value |-> PyNone,
             exc |-> Exc("ValueError", "could not convert string to float", v.repr)]
      [] OTHER ->
            [ok |-> FALSE, value |-> PyNone,
             exc |-> Exc("TypeError", "float() argument must be a string or a real number", v.type)]

\* models.py 29-39: the fields of Rate
RateFields ==
    {"object_id", "provider", "servicelevel_name", "servicelevel_token", "amount",
     "currency", "estimated_days", "duration_terms", "shipment_id"}

\* models.py 7-18: the fields of Address
AddressFields ==
    {"name", "street1", "street2", "city", "state", "zip", "country", "phone",
     "email", "is_residential"}

\* The attribute names an object handed to _serialize_rate may carry.
RateAttributes == RateFields \cup {"carrier"}

\* d restricted to the keys in S
Restrict(d, S) == [k \in S |-> d[k]]

\* Attribute values of rate objects.
RateValues ==
    {[object_id |-> Py("str", "rate_1"), provider |-> Py("str", "USPS"),
      carrier |-> Py("str", "usps"), servicelevel_name |-> Py("str", "Priority Mail"),
      servicelevel_token |-> Py("str", "usps_priority"), amount |-> amt,
      currency |-> Py("str", "USD"), estimated_days |-> Py("int", "2"),
      duration_terms |-> PyNone, shipment_id |-> PyNone] :
        amt \in {Py("float", "7.5"), Py("int", "12"), Py("str", "7.50"), Py("str", "call us"), PyNone}}

\* Attribute values of address objects.
AddressValues ==
    {[name |-> Py("str", "Ann Lee"), street1 |-> Py("str", "1 Main St"), street2 |-> s2,
      city |-> Py("str", "Ontario"), state |-> Py("str", "CA"), zip |-> Py("str", "91761"),
      country |-> Py("str", "US"), phone |-> PyNone, email |-> PyNone,
      is_residential |-> Py("bool", "True")] : s2 \in {PyNone, Py("str", "Apt 2")}}

\* models.py 29-39: a Rate instance (pydantic has validated it: every field
\* is set and amount is a float); pydantic 2 offers model_dump and dict,
\* pydantic 1 only dict.
RateInstances ==
    {[kind |-> "rate", model_dump |-> md, dict |-> TRUE, attrs |-> Restrict(v, RateFields)] :
        md \in BOOLEAN, v \in {w \in RateValues : w.amount.type = "float"}}

\* models.py 7-18: an Address instance
AddressInstances ==
    {[kind |-> "address", model_dump |-> md, dict |-> TRUE, attrs |-> v] :
        md \in BOOLEAN, v \in AddressValues}

\* A rate object that is no model instance: any attributes, no model_dump, no dict.
RawRates ==
    {[kind |-> "rate", model_dump |-> FALSE, dict |-> FALSE, attrs |-> Restrict(v, S)] :
        v \in RateValues, S \in SUBSET RateAttributes}

\* An address object that is no model instance.
RawAddresses ==
    {[kind |-> "address", model_dump |-> FALSE, dict |-> FALSE, attrs |-> Restrict(v, S)] :
        v \in AddressValues, S \in SUBSET AddressFields}

\* The first of `names` that is no attribute, or "None".
RECURSIVE FirstMissing(_, _)
FirstMissing(attrs, names) ==
    IF names = <<>> THEN "None"
    ELSE IF Head(names) \notin DOMAIN attrs THEN Head(names)
    ELSE FirstMissing(attrs, Tail(names))

\* obj.<name> on an object without that attribute
AttributeError(name) == Exc("AttributeError", "object has no attribute", name)

\* rate.model_dump() / rate.dict(): the model's fields
ModelDump(obj, fields) ==
    [ok |-> TRUE, none |-> FALSE, mapping |-> Restrict(obj.attrs, fields), exc |-> NoExc]

SerializerRaised(e) == [ok |-> FALSE, none |-> FALSE, mapping |-> EmptyDict, exc |-> e]

\* getattr(obj, name, default)
GetAttr(attrs, name, default) == IF name \in DOMAIN attrs THEN attrs[name] ELSE default

\* rates.py 156-174: _serialize_rate. The dict display is evaluated in order:
\* object_id, provider, carrier, servicelevel_name, servicelevel_token,
\* float(amount), currency, estimated_days, duration_terms, shipment_id.
SerializeRate(rate) ==
    IF rate.model_dump \/ rate.dict THEN ModelDump(rate, RateFields)
    ELSE LET attrs == rate.attrs
             early == FirstMissing(attrs, <<"object_id", "provider", "servicelevel_name", "amount">>)
             late == FirstMissing(attrs, <<"currency", "estimated_days">>)
         IN  IF early # "None" THEN SerializerRaised(AttributeError(early))
             ELSE IF ~Float(attrs["amount"]).ok THEN SerializerRaised(Float(attrs["amount"]).exc)
             ELSE IF late # "None" THEN SerializerRaised(AttributeError(late))
             ELSE [ok |-> TRUE, none |-> FALSE, exc |-> NoExc,
                   mapping |->
                     [object_id |-> attrs["object_id"],
                      provider |-> attrs["provider"],
                      carrier |-> GetAttr(attrs, "carrier", attrs["provider"]),
                      servicelevel_name |-> attrs["servicelevel_name"],
                      servicelevel_token |-> GetAttr(attrs, "servicelevel_token", PyNone),
                      amount |-> Float(attrs["amount"]).value,
                      currency |-> attrs["currency"],
                      estimated_days |-> attrs["estimated_days"],
                      duration_terms |-> GetAttr(attrs, "duration_terms", PyNone),
                      shipment_id |-> GetAttr(attrs, "shipment_id", PyNone)]]

\* validate.py 115-135: _serialize_address
SerializeAddress(address) ==
    IF address.kind = "None"
    THEN [ok |-> TRUE, none |-> TRUE, mapping |-> EmptyDict, exc |-> NoExc]
    ELSE IF address.model_dump \/ address.dict THEN ModelDump(address, AddressFields)
    ELSE LET attrs == address.attrs
             missing == FirstMissing(attrs, <<"name", "street1", "city", "state", "zip", "country">>)
         IN  IF missing # "None" THEN SerializerRaised(AttributeError(missing))
             ELSE [ok |-> TRUE, none |-> FALSE, exc |-> NoExc,
                   mapping |->
                     [name |-> attrs["name"],
                      street1 |-> attrs["street1"],
                      street2 |-> GetAttr(attrs, "street2", PyNone),
                      city |-> attrs["city"],
                      state |-> attrs["state"],
                      zip |-> attrs["zip"],
                      country |-> attrs["country"],
                      phone |-> GetAttr(attrs, "phone", PyNone),
                      email |-> GetAttr(attrs, "email", PyNone)]]

\* The objects the serializers are handed.
SerializerInit ==
    /\ sobj \in RateInstances \cup AddressInstances \cup RawRates \cup RawAddresses
                \cup {NoObject}
    /\ spc = "start"
    /\ sout = NoMapping

\* rates.py 154: self._serialize_rate(r)
SerializeRateCall ==
    /\ spc = "start"
    /\ sobj.kind = "rate"
    /\ sout' = SerializeRate(sobj)
    /\ spc' = "done"
    /\ UNCHANGED <<sobj, rvars, pvars, avars, hvars>>

\* validate.py 109-112: self._serialize_address(...)
SerializeAddressCall ==
    /\ spc = "start"
    /\ sobj.kind \in {"address", "None"}
    /\ sout' = SerializeAddress(sobj)
    /\ spc' = "done"
    /\ UNCHANGED <<sobj, rvars, pvars, avars, hvars>>

SerializeNext ==
    \/ SerializeRateCall
    \/ SerializeAddressCall

InitSerialize == SerializerInit /\ RatesIdle /\ PurchaseIdle /\ AdapterIdle /\ HistoryIdle

SpecSerialize == InitSerialize /\ [][SerializeNext]_vars

\* An object without model_dump and without dict was serialized.
FallbackTaken ==
    /\ spc = "done"
    /\ sobj.kind \in {"rate", "address"}
    /\ ~sobj.model_dump
    /\ ~sobj.dict

\* The field list the fallback of each serializer writes.
FallbackFields == IF sobj.kind = "rate" THEN RateAttributes ELSE AddressFields \ {"is_residential"}

\* C22: the fallback path of either serializer never fails on an incomplete
\* object: it returns a mapping over the fixed field list in which every
\* field the object does not provide is None, whichever fields are missing.
C22_FallbackNeverFails ==
    FallbackTaken =>
        /\ sout.ok
        /\ DOMAIN sout.mapping = FallbackFields
        /\ \A f \in FallbackFields \ DOMAIN sobj.attrs : sout.mapping[f] = PyNone

\* The entity's fields of the serialized object.
EntityFields == IF sobj.kind = "rate" THEN RateFields ELSE AddressFields

\* What the serializer returns for the model instance with the same field values.
InstanceMapping ==
    LET instance == [sobj EXCEPT !.model_dump = TRUE, !.dict = TRUE]
    IN  IF sobj.kind = "rate" THEN SerializeRate(instance) ELSE SerializeAddress(instance)

\* C23: a raw object with the field values of a model instance is flattened
\* to a mapping with the same field names and the same values as the instance.
C23_RawFlattensLikeInstance ==
    (/\ FallbackTaken
     /\ [kind |-> sobj.kind, model_dump |-> TRUE, dict |-> TRUE, attrs |-> sobj.attrs]
            \in RateInstances \cup AddressInstances) =>
        /\ sout.ok
        /\ DOMAIN sout.mapping = EntityFields
        /\ sout.mapping = InstanceMapping.mapping


\* ===================================================== the label history
\* api/history.py handler.do_POST, _load_history, _save_history
\* A record the storage file holds before the requests under study.
OldRecord(i) ==
    LabelRecord(("tracking_number" :> ("OLD" \o ToString(i))) @@ ("cost" :> 500)
                @@ ("created_at" :> "2026-10-01T08:00:00"))

\* n earlier records, most recent first.
OldRecords(n) == [i \in 1..n |-> OldRecord(i)]

\* The storage file as a request may find it: absent, or a list the program
\* wrote earlier (history.py 140-145), which holds at most HistoryLimit records.
Stores ==
    {NoFile} \cup {[state |-> "whole", records |-> OldRecords(n)] :
                    n \in {0, 1, HistoryLimit - 1, HistoryLimit}}

\* The short ones among them.
ShortStores == {file \in Stores : Len(file.records) <= 1}

\* The bodies request r may carry: a full label, a label with few fields,
\* JSON that is no object, and bytes that are no JSON.
PostBodies(r) ==
    {[parses |-> TRUE, is_dict |-> TRUE,
      fields |-> [tracking_number |-> "TRK" \o ToString(r), carrier |-> "USPS",
                  service |-> "Priority Mail", cost |-> 750, currency |-> "USD",
                  provider |-> "shippo", created_at |-> "2026-11-01T10:00:00"]],
     [parses |-> TRUE, is_dict |-> TRUE,
      fields |-> [tracking_number |-> "TRK" \o ToString(r), cost |-> 1200]],
     [parses |-> TRUE, is_dict |-> FALSE, fields |-> EmptyDict],
     NoBody}

\* history.py 129-139: _load_history. A missing file, and a file json.load
\* cannot read, give [].
LoadHistory(file) == IF file.state = "whole" THEN file.records ELSE <<>>

\* history[:1000] that keeps the tail of the list
Truncate_Tail(h) ==
    IF Len(h) <= HistoryLimit THEN h ELSE SubSeq(h, Len(h) - HistoryLimit + 1, Len(h))

\* history.py 92: history[:1000]
Truncate(h) ==
    IF Len(h) <= HistoryLimit THEN h ELSE SubSeq(h, 1, HistoryLimit)

\* history.py 89: history.insert(0, label_record)
Insert0(h, rec) == <<rec>> \o h

\* The length of json.dumps(v) for a string or None.
JsonLen(v) == IF v = "None" THEN 4 ELSE Len(v) + 2

\* The length of one record in json.dump(history, f, indent=2), with its
\* separator.
RecordSize(rec) ==
    236 + JsonLen(rec.tracking_number) + JsonLen(rec.carrier) + JsonLen(rec.service)
        + Len(ToString(rec.cost)) + JsonLen(rec.currency) + JsonLen(rec.provider)
        + JsonLen(rec.created_at) + JsonLen(rec.from_address) + JsonLen(rec.to_address)
        + JsonLen(rec.google_drive_link) + JsonLen(rec.google_drive_file_id)

\* The length of the records h[lo..hi] in the text.
RECURSIVE RecordsSize(_, _, _)
RecordsSize(h, lo, hi) ==
    IF lo > hi THEN 0
    ELSE IF lo = hi THEN RecordSize(h[lo])
    ELSE RecordsSize(h, lo, (lo + hi) \div 2) + RecordsSize(h, (lo + hi) \div 2 + 1, hi)

\* history.py 145: the length of the text json.dump(history, f, indent=2) writes
DumpSize(h) == 2 + RecordsSize(h, 1, Len(h))

\* history.py 144-145: the file after json.dump through a handle opened
\* with 'w'. The handle writes from offset 0. Onto a file that is still
\* empty the text is the file. Onto a file another handler has written since
\* this handle was opened, the text replaces the first bytes: a longer earlier
\* text leaves its tail behind, and the file is no JSON.
Written(file, h) ==
    IF file.state = "whole" /\ DumpSize(h) < DumpSize(file.records)
    THEN [state |-> "corrupt", records |-> <<>>]
    ELSE [state |-> "whole", records |-> h]

\* The storage file and the requests to come.
HistoryStart(files) ==
    /\ store \in files
    /\ hpc = [r \in Posts |-> "off"]
    /\ hbody = [r \in Posts |-> NoBody]
    /\ hstart = [r \in Posts |-> <<>>]
    /\ history = [r \in Posts |-> <<>>]
    /\ label_record = [r \in Posts |-> NoRecord]
    /\ hexc = [r \in Posts |-> NoExc]
    /\ hwire = [r \in Posts |-> <<>>]

\* history.py 65-92: the body is parsed, the file is read, the record is
\* built, put first, and the list is cut.
HistoryLoad(r) ==
    /\ hpc[r] = "off"
    /\ \E body \in PostBodies(r) :
         /\ hbody' = [hbody EXCEPT ![r] = body]
         /\ hstart' = [hstart EXCEPT ![r] = store.records]
         /\ IF ~body.parses
            THEN /\ hexc' = [hexc EXCEPT ![r] = Exc("JSONDecodeError", "Expecting value", "None")]
                 /\ hpc' = [hpc EXCEPT ![r] = "respond_error"]
                 /\ UNCHANGED <<history, label_record>>
            ELSE IF ~body.is_dict
            THEN /\ hexc' = [hexc EXCEPT ![r] = AttributeError("get")]
                 /\ hpc' = [hpc EXCEPT ![r] = "respond_error"]
                 /\ history' = [history EXCEPT ![r] = LoadHistory(store)]
                 /\ UNCHANGED label_record
            ELSE /\ label_record' = [label_record EXCEPT ![r] = LabelRecord(body.fields)]
                 /\ history' = [history EXCEPT ![r] =
                                  Truncate(Insert0(LoadHistory(store), LabelRecord(body.fields)))]
                 /\ hpc' = [hpc EXCEPT ![r] = "save_open"]
                 /\ UNCHANGED hexc
    /\ UNCHANGED <<store, hwire, rvars, pvars, avars, svars>>

\* history.py 142-144: os.makedirs and open(STORAGE_FILE, 'w'): the file
\* is created or emptied, or the file system refuses.
SaveOpen(r) ==
    /\ hpc[r] = "save_open"
    /\ \/ /\ store' = [state |-> "partial", records |-> <<>>]
          /\ hpc' = [hpc EXCEPT ![r] = "save_dump"]
          /\ UNCHANGED hexc
       \/ /\ hexc' = [hexc EXCEPT ![r] = Exc("OSError", "Read-only file system", "None")]
          /\ hpc' = [hpc EXCEPT ![r] = "respond_error"]
          /\ UNCHANGED store
    /\ UNCHANGED <<hbody, hstart, history, label_record, hwire, rvars, pvars, avars, svars>>

\* history.py 145: json.dump(history, f, indent=2), and the file is closed
SaveDump(r) ==
    /\ hpc[r] = "save_dump"
    /\ store' = Written(store, history[r])
    /\ hpc' = [hpc EXCEPT ![r] = "respond"]
    /\ UNCHANGED <<hbody, hstart, history, label_record, hexc, hwire, rvars, pvars, avars, svars>>

\* history.py 97-108: 200 and {'success': True, 'data': label_record}
RespondPost(r) ==
    /\ hpc[r] = "respond"
    /\ hwire' = [hwire EXCEPT ![r] = <<StatusLine(200), SuccessEnvelope(label_record[r], <<>>)>>]
    /\ hpc' = [hpc EXCEPT ![r] = "done"]
    /\ UNCHANGED <<store, hbody, hstart, history, label_record, hexc, rvars, pvars, avars, svars>>

\* history.py 110-121: 500 and {'success': False, 'error': str(e)}
RespondPostError(r) ==
    /\ hpc[r] = "respond_error"
    /\ hwire' = [hwire EXCEPT ![r] = <<StatusLine(500), ErrorEnvelope(hexc[r])>>]
    /\ hpc' = [hpc EXCEPT ![r] = "done"]
    /\ UNCHANGED <<store, hbody, hstart, history, label_record, hexc, rvars, pvars, avars, svars>>

\* A request that arrives while no other is being handled.
SequentialLoad(r) ==
    /\ \A q \in Posts \ {r} : hpc[q] \in {"off", "done"}
    /\ HistoryLoad(r)

\* Requests handled in any interleaving.
HistoryNext ==
    \E r \in Posts :
        \/ HistoryLoad(r)
        \/ SaveOpen(r)
        \/ SaveDump(r)
        \/ RespondPost(r)
        \/ RespondPostError(r)

\* Requests handled one after the other.
HistorySequentialNext ==
    \E r \in Posts :
        \/ SequentialLoad(r)
        \/ SaveOpen(r)
        \/ SaveDump(r)
        \/ RespondPost(r)
        \/ RespondPostError(r)

\* Interleaved requests start from a short file.
InitHistory ==
    HistoryStart(ShortStores) /\ RatesIdle /\ PurchaseIdle /\ AdapterIdle /\ SerializerIdle

\* Requests in sequence start from any file, a full one included.
InitHistorySequential ==
    HistoryStart(Stores) /\ RatesIdle /\ PurchaseIdle /\ AdapterIdle /\ SerializerIdle

SpecHistory == InitHistory /\ [][HistoryNext]_vars

SpecHistorySequential == InitHistorySequential /\ [][HistorySequentialNext]_vars

\* The request was answered with success: true.
Acknowledged(r) == hpc[r] = "done" /\ \E b \in Bodies(hwire[r]) : b.success

\* C28: when requests interleave, the record of every request answered
\* with success is in the stored history once all requests are answered
\* (fewer than HistoryLimit requests are made, so the cut removes none of
\* their records).
C28_NoAcknowledgedRecordLost ==
    (\A q \in Posts : hpc[q] \in {"off", "done"}) =>
        \A r \in Posts : Acknowledged(r) => label_record[r] \in Range(store.records)

\* C29: with one request handled at a time the stored history never holds
\* more than HistoryLimit records, and when a request has saved, its record
\* is first, the records the file held before follow in their order, and
\* only records beyond HistoryLimit, the oldest, are gone.
C29_SequentialNewestFirst ==
    /\ Len(store.records) <= HistoryLimit
    /\ \A r \in Posts :
         hpc[r] = "respond" =>
            /\ store.state = "whole"
            /\ store.records[1] = label_record[r]
            /\ Len(store.records) =
                 (IF Len(hstart[r]) < HistoryLimit THEN Len(hstart[r]) + 1 ELSE HistoryLimit)
            /\ \A i \in 2..Len(store.records) : store.records[i] = hstart[r][i - 1]

\* A request has saved its record into a store that held HistoryLimit
\* records, after another request did.
C29_Witness ==
    \E r \in Posts, q \in Posts :
        /\ hpc[r] = "respond"
        /\ Acknowledged(q)
        /\ Len(hstart[r]) = HistoryLimit
        /\ hstart[r][1] = label_record[q]
        /\ store.records[HistoryLimit] = hstart[r][HistoryLimit - 1]

=============================================================================
